---- MODULE Spec2Model ----
(***************************************************************************)
(* XML Encryption engine of xmlsec (src/src/xmlenc.c): template builders,  *)
(* the encrypt / decrypt operations, the EncryptedData and CipherData      *)
(* drivers, the session's transform chain and the Result record.           *)
(*                                                                         *)
(* An XML tree is a sequence of items.  An item is an element              *)
(*   [t |-> "elem", name, ns, attrs, kids]                                 *)
(* or a character of text (any other record with a field t).  Octet        *)
(* buffers are sequences of characters.  The cipher and the base64 codec   *)
(* are symbolic: they wrap and unwrap every character.                     *)
(***************************************************************************)
EXTENDS Integers, Sequences, FiniteSets, TLC

VARIABLES
    tmpl,      \* the template document: its children (the EncryptedData node)
    doc,       \* the source document: its children
    ids,       \* the Id values registered as document-level IDs
    kmctx,     \* the KeyManagerContext hints of the Ctx (keyType, keyUsage, keyId)
    nops,      \* the number of operations run so far
    last,      \* the record of the last call: inputs, state before, outcome
    hist       \* the encryptions not yet decrypted, and what the last decrypt
               \* was expected to give back

vars == <<tmpl, doc, ids, kmctx, nops, last, hist>>

----------------------------------------------------------------------------
(* Names, namespaces and Type values *)

NULL == "NULL"

xmlSecEncNs == "http://www.w3.org/2001/04/xmlenc#"

xmlSecDSigNs == "http://www.w3.org/2000/09/xmldsig#"

xmlSecEncTypeElement == "http://www.w3.org/2001/04/xmlenc#Element"

xmlSecEncTypeContent == "http://www.w3.org/2001/04/xmlenc#Content"

\* a Type value that is neither of the two
OtherType == "http://www.w3.org/2001/04/xmlenc#EncryptedKey"

xmlSecEncIds == {"Id"}

\* no encryption is waiting for its decryption
NoExpect == [plain |-> <<>>, doc |-> <<>>, orig |-> <<>>, loc |-> [d |-> "gone", path |-> <<>>],
             pure |-> FALSE, ref |-> FALSE, depth |-> 0]

NoHist == [stack |-> <<>>, expect |-> NoExpect, open |-> TRUE]

\* the KeyManagerContext hints before any operation has set them
NoKmCtx == [keyType |-> NULL, keyUsage |-> NULL, keyId |-> NULL]

----------------------------------------------------------------------------
(* XML trees *)

NoAttrs == [a \in {} |-> NULL]

Elem(name, ns, attrs, kids) ==
    [t |-> "elem", name |-> name, ns |-> ns, attrs |-> attrs, kids |-> kids]

Chr(c) == [t |-> "chr", c |-> c]

NL == Chr("\n")

IsElem(x) == x.t = "elem"

xmlGetProp(node, a) == IF a \in DOMAIN node.attrs THEN node.attrs[a] ELSE NULL

xmlSetProp(node, a, v) ==
    [node EXCEPT !.attrs = [x \in (DOMAIN node.attrs) \cup {a} |->
                                IF x = a THEN v ELSE node.attrs[x]]]

\* xmlSetProp when the value is given, nothing otherwise
SetOpt(node, a, v) == IF v # NULL THEN xmlSetProp(node, a, v) ELSE node

\* index of the first element at or after position i, 0 when there is none
xmlSecGetNextElementNode(items, i) ==
    LET S == {j \in i..Len(items) : j >= 1 /\ IsElem(items[j])}
    IN IF S = {} THEN 0 ELSE CHOOSE j \in S : \A k \in S : j <= k

xmlSecCheckNodeName(x, name, ns) == IsElem(x) /\ x.name = name /\ x.ns = ns

\* index of the first child of node with the name and namespace, 0 when none
xmlSecFindChild(node, name, ns) ==
    LET S == {j \in 1..Len(node.kids) : xmlSecCheckNodeName(node.kids[j], name, ns)}
    IN IF S = {} THEN 0 ELSE CHOOSE j \in S : \A k \in S : j <= k

InsertAt(s, i, x) == SubSeq(s, 1, i - 1) \o <<x>> \o SubSeq(s, i, Len(s))

RemoveAt(s, i) == SubSeq(s, 1, i - 1) \o SubSeq(s, i + 1, Len(s))

\* the new node is the last child of the parent
xmlSecAddChild(parent, name, ns) ==
    [parent EXCEPT !.kids = Append(@, Elem(name, ns, NoAttrs, <<>>))]

\* the new node is the sibling just before the child at index i
xmlSecAddPrevSibling(parent, i, name, ns) ==
    [parent EXCEPT !.kids = InsertAt(@, i, Elem(name, ns, NoAttrs, <<>>))]

\* the new node is the sibling just after the child at index i
xmlSecAddNextSibling(parent, i, name, ns) ==
    [parent EXCEPT !.kids = InsertAt(@, i + 1, Elem(name, ns, NoAttrs, <<>>))]

\* the Algorithm attribute names the transform
xmlSecTransformNodeWrite(node, id) == xmlSetProp(node, "Algorithm", id)

ElemNames(node) ==
    LET E == SelectSeq(node.kids, IsElem)
    IN [i \in 1..Len(E) |-> E[i].name]

CountKids(node, name) ==
    Cardinality({j \in 1..Len(node.kids) :
                    IsElem(node.kids[j]) /\ node.kids[j].name = name})

----------------------------------------------------------------------------
(* Template builders.  A builder returns the EncryptedData node after the  *)
(* call, whether it returned a node (ok) and the error it reported.  f     *)
(* names the library call that fails during the call, "none" for none.     *)

BRes(node, ok, err) == [node |-> node, ok |-> ok, err |-> err]

\* the created node has no namespace of its own: xmlNewNs only declares one
xmlSecEncDataCreate(id, type, mimeType, encoding) ==
    LET n0 == Elem("EncryptedData", NULL, [a \in {"xmlns"} |-> xmlSecEncNs], <<>>)
        n1 == SetOpt(n0, "Id", id)
        n2 == SetOpt(n1, "Type", type)
        n3 == SetOpt(n2, "MimeType", mimeType)
        n4 == SetOpt(n3, "Encoding", encoding)
    IN xmlSecAddChild(n4, "CipherData", xmlSecEncNs)

\* the mutant of C37: the new node stays when the algorithm cannot be written
AddEncMethodKeepsNode(encNode, encMethod, f) ==
    IF xmlSecFindChild(encNode, "EncryptionMethod", xmlSecEncNs) # 0
    THEN BRes(encNode, FALSE, "NODE_ALREADY_PRESENT")
    ELSE LET tmp == xmlSecGetNextElementNode(encNode.kids, 1)
             pos == IF tmp = 0 THEN Len(encNode.kids) + 1 ELSE tmp
             added == IF tmp = 0
                      THEN xmlSecAddChild(encNode, "EncryptionMethod", xmlSecEncNs)
                      ELSE xmlSecAddPrevSibling(encNode, tmp, "EncryptionMethod", xmlSecEncNs)
         IN IF f = "AddChild1" THEN BRes(encNode, FALSE, "XMLSEC_FAILED")
            ELSE IF f = "NodeWrite" THEN BRes(added, FALSE, "XMLSEC_FAILED")
                 ELSE BRes([added EXCEPT !.kids[pos] = xmlSecTransformNodeWrite(@, encMethod)],
                           TRUE, NULL)

xmlSecEncDataAddEncMethod(encNode, encMethod, f) ==
    IF xmlSecFindChild(encNode, "EncryptionMethod", xmlSecEncNs) # 0
    THEN BRes(encNode, FALSE, "NODE_ALREADY_PRESENT")
    ELSE LET tmp == xmlSecGetNextElementNode(encNode.kids, 1)
             pos == IF tmp = 0 THEN Len(encNode.kids) + 1 ELSE tmp
             added == IF tmp = 0
                      THEN xmlSecAddChild(encNode, "EncryptionMethod", xmlSecEncNs)
                      ELSE xmlSecAddPrevSibling(encNode, tmp, "EncryptionMethod", xmlSecEncNs)
         IN IF f = "AddChild1" THEN BRes(encNode, FALSE, "XMLSEC_FAILED")
            ELSE IF f = "NodeWrite"
                 \* xmlUnlinkNode, xmlFreeNode of the new node
                 THEN BRes([added EXCEPT !.kids = RemoveAt(@, pos)], FALSE, "XMLSEC_FAILED")
                 ELSE BRes([added EXCEPT !.kids[pos] = xmlSecTransformNodeWrite(@, encMethod)],
                           TRUE, NULL)

\* the mutant of C5: KeyInfo is appended as the last child
AddKeyInfoAppended(encNode, f) ==
    IF xmlSecFindChild(encNode, "KeyInfo", xmlSecDSigNs) # 0
    THEN BRes(encNode, FALSE, "NODE_ALREADY_PRESENT")
    ELSE IF f = "AddChild1" THEN BRes(encNode, FALSE, "XMLSEC_FAILED")
         ELSE BRes(xmlSecAddChild(encNode, "KeyInfo", xmlSecDSigNs), TRUE, NULL)

xmlSecEncDataAddKeyInfo(encNode, f) ==
    IF xmlSecFindChild(encNode, "KeyInfo", xmlSecDSigNs) # 0
    THEN BRes(encNode, FALSE, "NODE_ALREADY_PRESENT")
    ELSE LET prev == xmlSecFindChild(encNode, "EncryptionMethod", xmlSecEncNs)
             tmp == xmlSecGetNextElementNode(encNode.kids, 1)
         IN IF f = "AddChild1" THEN BRes(encNode, FALSE, "XMLSEC_FAILED")
            ELSE IF prev # 0
                 THEN BRes(xmlSecAddNextSibling(encNode, prev, "KeyInfo", xmlSecDSigNs), TRUE, NULL)
                 ELSE IF tmp = 0
                      THEN BRes(xmlSecAddChild(encNode, "KeyInfo", xmlSecDSigNs), TRUE, NULL)
                      ELSE BRes(xmlSecAddPrevSibling(encNode, tmp, "KeyInfo", xmlSecDSigNs),
                                TRUE, NULL)

\* the mutant of C6: the check for an EncryptionProperties child is missing
AddEncPropertiesNoCheck(encNode, id, f) ==
    IF f = "AddChild1" THEN BRes(encNode, FALSE, "XMLSEC_FAILED")
    ELSE LET added == xmlSecAddChild(encNode, "EncryptionProperties", xmlSecEncNs)
         IN BRes([added EXCEPT !.kids[Len(added.kids)] = SetOpt(@, "Id", id)], TRUE, NULL)

xmlSecEncDataAddEncProperties(encNode, id, f) ==
    IF xmlSecFindChild(encNode, "EncryptionProperties", xmlSecEncNs) # 0
    THEN BRes(encNode, FALSE, "NODE_ALREADY_PRESENT")
    ELSE IF f = "AddChild1" THEN BRes(encNode, FALSE, "XMLSEC_FAILED")
         ELSE LET added == xmlSecAddChild(encNode, "EncryptionProperties", xmlSecEncNs)
              IN BRes([added EXCEPT !.kids[Len(added.kids)] = SetOpt(@, "Id", id)], TRUE, NULL)

xmlSecEncDataAddEncProperty(encNode, id, target, f) ==
    LET found == xmlSecFindChild(encNode, "EncryptionProperties", xmlSecEncNs)
        made == xmlSecEncDataAddEncProperties(encNode, NULL, f)
    IN IF found = 0 /\ ~made.ok THEN BRes(made.node, FALSE, "XMLSEC_FAILED")
       ELSE LET node == IF found = 0 THEN made.node ELSE encNode
                encProps == xmlSecFindChild(node, "EncryptionProperties", xmlSecEncNs)
                added == xmlSecAddChild(node.kids[encProps], "EncryptionProperty", xmlSecEncNs)
                encProp == SetOpt(SetOpt(added.kids[Len(added.kids)], "Id", id),
                                  "Target", target)
            IN IF f = "AddChild2" THEN BRes(node, FALSE, "XMLSEC_FAILED")
               ELSE BRes([node EXCEPT !.kids[encProps] =
                              [added EXCEPT !.kids[Len(added.kids)] = encProp]], TRUE, NULL)

xmlSecEncDataAddCipherValue(encNode, f) ==
    LET cipherData == xmlSecFindChild(encNode, "CipherData", xmlSecEncNs)
    IN IF cipherData = 0 THEN BRes(encNode, FALSE, "NODE_NOT_FOUND")
       ELSE IF xmlSecFindChild(encNode.kids[cipherData], "CipherValue", xmlSecEncNs) # 0
            THEN BRes(encNode, FALSE, "NODE_ALREADY_PRESENT")
       ELSE IF xmlSecFindChild(encNode.kids[cipherData], "CipherReference", xmlSecEncNs) # 0
            THEN BRes(encNode, FALSE, "NODE_ALREADY_PRESENT")
       ELSE IF f = "AddChild1" THEN BRes(encNode, FALSE, "XMLSEC_FAILED")
       ELSE BRes([encNode EXCEPT !.kids[cipherData] =
                      xmlSecAddChild(@, "CipherValue", xmlSecEncNs)], TRUE, NULL)

\* the mutant of C4: the check for a CipherValue child is missing
AddCipherReferenceNoValueCheck(encNode, uri, f) ==
    LET cipherData == xmlSecFindChild(encNode, "CipherData", xmlSecEncNs)
    IN IF cipherData = 0 THEN BRes(encNode, FALSE, "NODE_NOT_FOUND")
       ELSE IF xmlSecFindChild(encNode.kids[cipherData], "CipherReference", xmlSecEncNs) # 0
            THEN BRes(encNode, FALSE, "NODE_ALREADY_PRESENT")
       ELSE BRes([encNode EXCEPT !.kids[cipherData] =
                      xmlSecAddChild(@, "CipherReference", xmlSecEncNs)], TRUE, NULL)

xmlSecEncDataAddCipherReference(encNode, uri, f) ==
    LET cipherData == xmlSecFindChild(encNode, "CipherData", xmlSecEncNs)
    IN IF cipherData = 0 THEN BRes(encNode, FALSE, "NODE_NOT_FOUND")
       ELSE IF xmlSecFindChild(encNode.kids[cipherData], "CipherValue", xmlSecEncNs) # 0
            THEN BRes(encNode, FALSE, "NODE_ALREADY_PRESENT")
       ELSE IF xmlSecFindChild(encNode.kids[cipherData], "CipherReference", xmlSecEncNs) # 0
            THEN BRes(encNode, FALSE, "NODE_ALREADY_PRESENT")
       ELSE IF f = "AddChild1" THEN BRes(encNode, FALSE, "XMLSEC_FAILED")
       ELSE LET cd == xmlSecAddChild(encNode.kids[cipherData], "CipherReference", xmlSecEncNs)
            IN BRes([encNode EXCEPT !.kids[cipherData] =
                         [cd EXCEPT !.kids[Len(cd.kids)] = SetOpt(@, "URI", uri)]], TRUE, NULL)

\* the mutant of C20: Transforms is looked up and made in the xml-dsig namespace
AddTransformDSigTransforms(encNode, transform, f) ==
    LET cipherData == xmlSecFindChild(encNode, "CipherData", xmlSecEncNs)
    IN IF cipherData = 0 THEN BRes(encNode, FALSE, "NODE_NOT_FOUND")
       ELSE
       LET cd == encNode.kids[cipherData]
           cipherRef == xmlSecFindChild(cd, "CipherReference", xmlSecEncNs)
       IN IF cipherRef = 0 THEN BRes(encNode, FALSE, "NODE_NOT_FOUND")
          ELSE
          LET cr == cd.kids[cipherRef]
              found == xmlSecFindChild(cr, "Transforms", xmlSecDSigNs)
              cr1 == IF found = 0 THEN xmlSecAddChild(cr, "Transforms", xmlSecDSigNs) ELSE cr
              transforms == xmlSecFindChild(cr1, "Transforms", xmlSecDSigNs)
              ts == xmlSecAddChild(cr1.kids[transforms], "Transform", xmlSecDSigNs)
              cr2 == [cr1 EXCEPT !.kids[transforms] = ts]
              cr3 == [cr2 EXCEPT !.kids[transforms].kids[Len(ts.kids)] =
                          xmlSecTransformNodeWrite(@, transform)]
              put(c) == [encNode EXCEPT !.kids[cipherData].kids[cipherRef] = c]
          IN IF found = 0 /\ f = "AddChild1" THEN BRes(encNode, FALSE, "XMLSEC_FAILED")
             ELSE IF f = "AddChild2" THEN BRes(put(cr1), FALSE, "XMLSEC_FAILED")
             ELSE IF f = "NodeWrite" THEN BRes(put(cr2), FALSE, "XMLSEC_FAILED")
             ELSE BRes(put(cr3), TRUE, NULL)

xmlSecCipherReferenceAddTransform(encNode, transform, f) ==
    LET cipherData == xmlSecFindChild(encNode, "CipherData", xmlSecEncNs)
    IN IF cipherData = 0 THEN BRes(encNode, FALSE, "NODE_NOT_FOUND")
       ELSE
       LET cd == encNode.kids[cipherData]
           cipherRef == xmlSecFindChild(cd, "CipherReference", xmlSecEncNs)
       IN IF cipherRef = 0 THEN BRes(encNode, FALSE, "NODE_NOT_FOUND")
          ELSE
          LET cr == cd.kids[cipherRef]
              found == xmlSecFindChild(cr, "Transforms", xmlSecEncNs)
              cr1 == IF found = 0 THEN xmlSecAddChild(cr, "Transforms", xmlSecEncNs) ELSE cr
              transforms == xmlSecFindChild(cr1, "Transforms", xmlSecEncNs)
              ts == xmlSecAddChild(cr1.kids[transforms], "Transform", xmlSecDSigNs)
              cr2 == [cr1 EXCEPT !.kids[transforms] = ts]
              cr3 == [cr2 EXCEPT !.kids[transforms].kids[Len(ts.kids)] =
                          xmlSecTransformNodeWrite(@, transform)]
              put(c) == [encNode EXCEPT !.kids[cipherData].kids[cipherRef] = c]
          IN IF found = 0 /\ f = "AddChild1" THEN BRes(encNode, FALSE, "XMLSEC_FAILED")
             ELSE IF f = "AddChild2" THEN BRes(put(cr1), FALSE, "XMLSEC_FAILED")
             ELSE IF f = "NodeWrite" THEN BRes(put(cr2), FALSE, "XMLSEC_FAILED")
             ELSE BRes(put(cr3), TRUE, NULL)

----------------------------------------------------------------------------
(* Serialising and parsing.  xmlNodeDump writes an element as an open tag, *)
(* its children and a close tag; the parser reads the octets back.         *)

\* the tag is written with the namespace declared on the element, and that is
\* the namespace the parser gives the element it reads back
OpenTag(e) ==
    [t |-> "open", name |-> e.name,
     ns |-> IF "xmlns" \in DOMAIN e.attrs THEN e.attrs["xmlns"] ELSE e.ns,
     attrs |-> e.attrs]

CloseTag == [t |-> "close"]

RECURSIVE xmlNodeDump(_)
xmlNodeDump(item) ==
    IF IsElem(item)
    THEN LET RECURSIVE DumpAll(_, _)
             DumpAll(kids, i) ==
                 IF i > Len(kids) THEN <<>>
                 ELSE xmlNodeDump(kids[i]) \o DumpAll(kids, i + 1)
         IN <<OpenTag(item)>> \o DumpAll(item.kids, 1) \o <<CloseTag>>
    ELSE <<item>>

RECURSIVE DumpItems(_)
DumpItems(items) ==
    IF items = <<>> THEN <<>> ELSE xmlNodeDump(Head(items)) \o DumpItems(Tail(items))

\* the items read from position i up to a close tag or the end of the octets:
\* [ok, items, pos] with pos the position of that close tag (or Len + 1)
RECURSIVE ParseFrom(_, _)
ParseFrom(toks, i) ==
    IF i > Len(toks) \/ toks[i].t = "close"
    THEN [ok |-> TRUE, items |-> <<>>, pos |-> i]
    ELSE IF toks[i].t = "open"
         THEN LET sub == ParseFrom(toks, i + 1)
              IN IF ~sub.ok \/ sub.pos > Len(toks)
                 THEN [ok |-> FALSE, items |-> <<>>, pos |-> i]
                 ELSE LET rest == ParseFrom(toks, sub.pos + 1)
                          e == Elem(toks[i].name, toks[i].ns, toks[i].attrs, sub.items)
                      IN [ok |-> rest.ok, items |-> <<e>> \o rest.items, pos |-> rest.pos]
         ELSE LET rest == ParseFrom(toks, i + 1)
              IN [ok |-> rest.ok, items |-> <<toks[i]>> \o rest.items, pos |-> rest.pos]

\* the parse of a buffer as the content of a dummy element
xmlParse(buf) ==
    LET r == ParseFrom(buf, 1)
    IN [ok |-> r.ok /\ r.pos = Len(buf) + 1, items |-> r.items]

\* the text of a node: the characters among its children
xmlNodeGetContent(node) == SelectSeq(node.kids, LAMBDA x : ~IsElem(x))

\* the node's children become the text "\n" + buf + "\n"
SetCipherText(node, buf) == [node EXCEPT !.kids = <<NL>> \o buf \o <<NL>>]

(* Paths: a node is named by the indexes that lead to it from the          *)
(* document's children.                                                    *)

RECURSIVE GetAt(_, _)
GetAt(items, path) ==
    IF Len(path) = 1 THEN items[path[1]]
    ELSE GetAt(items[path[1]].kids, Tail(path))

\* the items with the node at the path replaced by the sequence new
RECURSIVE ReplaceAt(_, _, _)
ReplaceAt(items, path, new) ==
    IF Len(path) = 1
    THEN SubSeq(items, 1, path[1] - 1) \o new \o SubSeq(items, path[1] + 1, Len(items))
    ELSE [items EXCEPT ![path[1]].kids = ReplaceAt(@, Tail(path), new)]

\* the paths of the elements of a tree, to the depth d
RECURSIVE PathsIn(_, _)
PathsIn(items, d) ==
    IF d = 0 THEN {}
    ELSE UNION {IF IsElem(items[i])
                THEN {<<i>>} \cup {<<i>> \o q : q \in PathsIn(items[i].kids, d - 1)}
                ELSE {} : i \in 1..Len(items)}

\* the Id values of a node and of the elements below it
RECURSIVE IdsOf(_)
IdsOf(item) ==
    IF ~IsElem(item) THEN {}
    ELSE (IF "Id" \in DOMAIN item.attrs THEN {item.attrs["Id"]} ELSE {})
            \cup UNION {IdsOf(item.kids[i]) : i \in 1..Len(item.kids)}

----------------------------------------------------------------------------
(* Keys, and the symbolic cipher and base64 codec *)

NoKey == [name |-> NULL, value |-> NULL, origin |-> NULL]

K1 == [name |-> "k1", value |-> "v1", origin |-> "static"]

K2 == [name |-> "k2", value |-> "v2", origin |-> "dynamic"]

\* the key the key manager finds
KM1 == [name |-> "k1", value |-> "v1", origin |-> "keymanager"]

E(k, x) == [t |-> "E", k |-> k, x |-> x]

Pad(k) == [t |-> "pad", k |-> k]

B(x) == [t |-> "B", x |-> x]

MapSeq(s, F(_)) == [i \in 1..Len(s) |-> F(s[i])]

\* the ciphertext of a buffer as the encryption chain writes it:
\* cipher, then base64
CipherTextOf(k, buf) ==
    MapSeq(MapSeq(buf, LAMBDA x : E(k, x)) \o <<Pad(k)>>, LAMBDA x : B(x))

NoBuf == [has |-> FALSE, data |-> <<>>]

Buf(data) == [has |-> TRUE, data |-> data]

----------------------------------------------------------------------------
(* Transforms live in a heap, a sequence indexed by pointer; 0 is the null *)
(* pointer.  freed counts the times the transform was destroyed.           *)

NewTransform(kind, id) ==
    [kind |-> kind, id |-> id, binary |-> (id # "c14n"), prev |-> 0, next |-> 0,
     freed |-> 0, encrypt |-> 0, nset |-> 0, key |-> NULL,
     buf |-> IF kind = "membuf" THEN Buf(<<>>) ELSE NoBuf, pad |-> FALSE]

\* xmlSecBinTransformIdGetEncKeyType, ...DecKeyType, ...KeyId of a method
EncKeyType(id) == "public"

DecKeyType(id) == "private"

KeyIdOf(id) == IF id = "aes128-cbc" THEN "aes-key" ELSE "no-key"

\* the transforms linked to t through prev and next pointers, t included
RECURSIVE Linked(_, _, _)
Linked(tr, S, n) ==
    LET T == S \cup {tr[i].prev : i \in S} \cup {tr[i].next : i \in S}
        U == T \ {0}
    IN IF n = 0 \/ U = S THEN S ELSE Linked(tr, U, n - 1)

\* the pointers from t to the end of the chain, following next
RECURSIVE ChainFrom(_, _, _)
ChainFrom(tr, t, n) ==
    IF t = 0 \/ n = 0 THEN <<>> ELSE <<t>> \o ChainFrom(tr, tr[t].next, n - 1)

\* what one transform makes of the octets written to it: [ok, out, pad]
TransformWrite(t, data) ==
    CASE t.kind = "cipher" /\ t.key = NULL ->
            [ok |-> FALSE, out |-> <<>>, pad |-> t.pad]
      [] t.kind = "cipher" /\ t.key # NULL /\ t.encrypt = 1 ->
            [ok |-> TRUE, out |-> MapSeq(data, LAMBDA x : E(t.key, x)), pad |-> t.pad]
      [] t.kind = "cipher" /\ t.key # NULL /\ t.encrypt = 0 ->
            IF \A i \in 1..Len(data) : data[i].t \in {"E", "pad"} /\ data[i].k = t.key
            THEN [ok |-> TRUE,
                  out |-> MapSeq(SelectSeq(data, LAMBDA x : x.t = "E"), LAMBDA x : x.x),
                  pad |-> t.pad \/ \E i \in 1..Len(data) : data[i].t = "pad"]
            ELSE [ok |-> FALSE, out |-> <<>>, pad |-> t.pad]
      [] t.kind = "b64enc" ->
            [ok |-> TRUE, out |-> MapSeq(data, LAMBDA x : B(x)), pad |-> t.pad]
      [] t.kind = "b64dec" ->
            LET d == SelectSeq(data, LAMBDA x : x # NL)
            IN IF \A i \in 1..Len(d) : d[i].t = "B"
               THEN [ok |-> TRUE, out |-> MapSeq(d, LAMBDA x : x.x), pad |-> t.pad]
               ELSE [ok |-> FALSE, out |-> <<>>, pad |-> t.pad]
      [] OTHER -> [ok |-> TRUE, out |-> data, pad |-> t.pad]

\* what a transform adds when it is flushed: [ok, out]
TransformFinal(t) ==
    CASE t.kind = "cipher" /\ t.encrypt = 1 -> [ok |-> TRUE, out |-> <<Pad(t.key)>>]
      [] t.kind = "cipher" /\ t.encrypt = 0 -> [ok |-> t.pad, out |-> <<>>]
      [] OTHER -> [ok |-> TRUE, out |-> <<>>]

\* xmlSecBinTransformWrite (final = FALSE) and xmlSecBinTransformFlush (final =
\* TRUE) at transform t: every transform hands its output to the next one and
\* the memory buffer keeps what reaches it.  [ok, tr]
RECURSIVE Push(_, _, _, _)
Push(tr, t, data, final) ==
    IF t = 0 THEN [ok |-> TRUE, tr |-> tr]
    ELSE LET w == TransformWrite(tr[t], data)
             f == IF final THEN TransformFinal([tr[t] EXCEPT !.pad = w.pad])
                  ELSE [ok |-> TRUE, out |-> <<>>]
             out == w.out \o f.out
             tr1 == IF tr[t].kind = "membuf"
                    THEN [tr EXCEPT ![t].buf = Buf(@.data \o data)]
                    ELSE [tr EXCEPT ![t].pad = w.pad]
         IN IF ~w.ok \/ ~f.ok THEN [ok |-> FALSE, tr |-> tr1]
            ELSE Push(tr1, tr[t].next, out, final)

----------------------------------------------------------------------------
(* One operation runs on a machine record m: the EncryptedData node (enc), *)
(* the two documents, the transform heap (tr), the Session (first, last,   *)
(* cipherDataNode, encrypt), the Result (res), the counts of allocations   *)
(* (al) and releases (rl) per resource, the log of the steps taken, the    *)
(* errors reported (errs) and the status of the last call (ret).  m.in     *)
(* holds the inputs; m.in.fault names the library call that fails.         *)

Resources == {"Result", "Session", "key", "buffer", "xmlbuf", "content", "tstate"}

ZeroRes ==
    [id |-> NULL, type |-> NULL, mimeType |-> NULL, encoding |-> NULL,
     encryptionMethod |-> NULL, key |-> NoKey, buffer |-> NoBuf,
     replaced |-> 0, encrypt |-> 0]

Machine(in, enc, tmplD, docD, idSet, km) ==
    [in |-> in, enc |-> enc, tmplD |-> tmplD, docD |-> docD, ids |-> idSet,
     kmctx |-> km, tr |-> <<>>, first |-> 0, last |-> 0, cipherDataNode |-> 0,
     encrypt |-> 0, res |-> ZeroRes, al |-> [r \in Resources |-> 0],
     rl |-> [r \in Resources |-> 0], log |-> <<>>, errs |-> <<>>, ret |-> 0,
     new |-> 0, ub |-> FALSE, crash |-> FALSE, hit |-> FALSE, handed |-> FALSE,
     kmAtCall |-> NoKmCtx, pipeline |-> <<>>, encLoc |-> in.loc,
     encPre |-> enc, tmplPre |-> tmplD]

\* the value v is computed once and F goes on with it
Let(v, F(_)) == F(v)

Ev(m, e) == [m EXCEPT !.log = Append(@, e)]

\* xmlSecError: the error is reported and the call returns a failure
Fail(m, kind) == [m EXCEPT !.errs = Append(@, kind), !.ret = -1]

\* the library call named by the fault fails here
Faulty(m, name) == m.in.fault = name

Hit(m) == [m EXCEPT !.hit = TRUE]

Alloc(m, r) == [m EXCEPT !.al[r] = @ + 1]

Release(m, r) == [m EXCEPT !.rl[r] = @ + 1]

\* xmlSecTransformCreate / xmlSecTransformNodeRead: m.new is the new pointer,
\* 0 when the creation fails
CreateTransform(m, kind, id, fault) ==
    IF Faulty(m, fault) THEN Hit([m EXCEPT !.new = 0])
    ELSE Ev([m EXCEPT !.tr = Append(@, NewTransform(kind, id)), !.new = Len(m.tr) + 1,
                      !.al["buffer"] = @ + (IF kind = "membuf" THEN 1 ELSE 0)],
            <<"Create", kind>>)

\* the transforms of the set S are destroyed; a memory buffer that still owns
\* its buffer frees it; destroying a destroyed transform is a double free
DestroySet(m, S) ==
    LET owned == {i \in S : m.tr[i].freed = 0 /\ m.tr[i].buf.has}
        tr1 == [i \in 1..Len(m.tr) |->
                    IF i \in S THEN [m.tr[i] EXCEPT !.freed = @ + 1, !.buf = NoBuf]
                    ELSE m.tr[i]]
    IN Ev([m EXCEPT !.tr = tr1,
                    !.rl["buffer"] = @ + Cardinality(owned),
                    !.ub = @ \/ \E i \in S : m.tr[i].freed >= 1],
          <<"TransformDestroy", S>>)

xmlSecBinTransformDestroyAll(m, t) == DestroySet(m, Linked(m.tr, {t}, Len(m.tr)))

xmlSecTransformDestroy(m, t) == DestroySet(m, {t})

xmlSecBinTransformAddAfter(tr, cur, t) ==
    LET nx == tr[cur].next
        tr1 == [tr EXCEPT ![t].prev = cur, ![t].next = nx, ![cur].next = t]
    IN IF nx = 0 THEN tr1 ELSE [tr1 EXCEPT ![nx].prev = t]

xmlSecBinTransformAddBefore(tr, cur, t) ==
    LET pv == tr[cur].prev
        tr1 == [tr EXCEPT ![t].next = cur, ![t].prev = pv, ![cur].prev = t]
    IN IF pv = 0 THEN tr1 ELSE [tr1 EXCEPT ![pv].next = t]

\* the mutant of C26: the transform is put at the head of the chain
AddTransformAtHead(m, t) ==
    IF ~m.tr[t].binary THEN Fail(m, "INVALID_TRANSFORM")
    ELSE IF m.first = 0
         THEN Ev([m EXCEPT !.first = t, !.last = t, !.ret = 0], <<"Add", m.tr[t].kind>>)
         ELSE Ev([m EXCEPT !.tr = xmlSecBinTransformAddBefore(m.tr, m.first, t),
                           !.first = t, !.ret = 0], <<"Add", m.tr[t].kind>>)

xmlSecEncStateAddTransform(m, t) ==
    IF ~m.tr[t].binary THEN Fail(m, "INVALID_TRANSFORM")
    ELSE IF m.last = 0
         THEN Ev([m EXCEPT !.first = t, !.last = t, !.ret = 0], <<"Add", m.tr[t].kind>>)
         ELSE Ev([m EXCEPT !.tr = xmlSecBinTransformAddAfter(m.tr, m.last, t),
                           !.last = t, !.ret = 0], <<"Add", m.tr[t].kind>>)

\* the mutant of C1: the transform is put at the tail of the chain
AddFirstTransformAtTail(m, t) ==
    IF ~m.tr[t].binary THEN Fail(m, "INVALID_TRANSFORM")
    ELSE IF m.last = 0
         THEN Ev([m EXCEPT !.first = t, !.last = t, !.ret = 0], <<"AddFirst", m.tr[t].kind>>)
         ELSE Ev([m EXCEPT !.tr = xmlSecBinTransformAddAfter(m.tr, m.last, t),
                           !.last = t, !.ret = 0], <<"AddFirst", m.tr[t].kind>>)

\* the mutant of C18: the type of the transform is not looked at
AddFirstTransformUnchecked(m, t) ==
    IF m.first = 0
    THEN Ev([m EXCEPT !.first = t, !.last = t, !.ret = 0], <<"AddFirst", m.tr[t].kind>>)
    ELSE Ev([m EXCEPT !.tr = xmlSecBinTransformAddBefore(m.tr, m.first, t),
                      !.first = t, !.ret = 0], <<"AddFirst", m.tr[t].kind>>)

xmlSecEncStateAddFirstTransform(m, t) ==
    IF ~m.tr[t].binary THEN Fail(m, "INVALID_TRANSFORM")
    ELSE IF m.first = 0
         THEN Ev([m EXCEPT !.first = t, !.last = t, !.ret = 0], <<"AddFirst", m.tr[t].kind>>)
         ELSE Ev([m EXCEPT !.tr = xmlSecBinTransformAddBefore(m.tr, m.first, t),
                           !.first = t, !.ret = 0], <<"AddFirst", m.tr[t].kind>>)

xmlSecEncResultCreate(m, encrypt) ==
    IF Faulty(m, "ResultAlloc") THEN Hit(Fail(m, "MALLOC_FAILED"))
    ELSE Ev(Alloc([m EXCEPT !.res = [ZeroRes EXCEPT !.encrypt = encrypt], !.ret = 0],
                  "Result"), <<"ResultCreate">>)

\* the key, the buffer and the attribute strings the Result owns go with it;
\* a second call works on freed memory
xmlSecEncResultDestroy(m) ==
    IF m.rl["Result"] >= 1
    THEN Ev([Release(m, "Result") EXCEPT !.ub = TRUE], <<"ResultDestroy">>)
    ELSE Ev([m EXCEPT !.res = ZeroRes,
                      !.rl = [r \in Resources |->
                                 IF r = "Result" THEN m.rl[r] + 1
                                 ELSE IF r = "key" /\ m.res.key # NoKey THEN m.rl[r] + 1
                                 ELSE IF r = "buffer" /\ m.res.buffer.has THEN m.rl[r] + 1
                                 ELSE m.rl[r]]],
            <<"ResultDestroy">>)

\* the chain goes with the Session, through whichever end is not null; a
\* second call works on freed memory
xmlSecEncStateDestroy(m) ==
    IF m.rl["Session"] >= 1
    THEN Ev([Release(m, "Session") EXCEPT !.ub = TRUE], <<"StateDestroy">>)
    ELSE Ev(Release([(IF m.first # 0 THEN xmlSecBinTransformDestroyAll(m, m.first)
                      ELSE IF m.last # 0 THEN xmlSecBinTransformDestroyAll(m, m.last)
                      ELSE m)
                       EXCEPT !.first = 0, !.last = 0, !.cipherDataNode = 0],
                    "Session"), <<"StateDestroy">>)

\* the Id attributes of the EncryptedData subtree become document-level IDs
xmlSecAddIDs(m) == Ev([m EXCEPT !.ids = @ \cup IdsOf(m.enc)], <<"AddIDs">>)

\* the mutant of C33: the KeyInfo writer leaves the node as it is
KeyInfoNodeWriteNothing(keyInfo, key) == keyInfo

\* the dsig KeyInfo writer fills the KeyName children of the KeyInfo node
xmlSecKeyInfoNodeWrite(keyInfo, key) ==
    [keyInfo EXCEPT !.kids = [i \in 1..Len(keyInfo.kids) |->
        IF IsElem(keyInfo.kids[i]) /\ keyInfo.kids[i].name = "KeyName"
        THEN [keyInfo.kids[i] EXCEPT !.kids = <<Chr(key.name)>>]
        ELSE keyInfo.kids[i]]]

----------------------------------------------------------------------------
(* The EncryptedData driver *)

\* the mutant of C30: the CipherData is looked for among all the children
EncDataChildrenAnywhere(enc) ==
    LET cur0 == xmlSecGetNextElementNode(enc.kids, 1)
        hasEM == cur0 # 0 /\ xmlSecCheckNodeName(enc.kids[cur0], "EncryptionMethod", xmlSecEncNs)
        cur1 == IF hasEM THEN xmlSecGetNextElementNode(enc.kids, cur0 + 1) ELSE cur0
        hasKI == cur1 # 0 /\ xmlSecCheckNodeName(enc.kids[cur1], "KeyInfo", xmlSecDSigNs)
    IN [hasEM |-> hasEM, method |-> cur0,
        keyInfoNode |-> IF hasKI THEN cur1 ELSE 0,
        cur |-> xmlSecFindChild(enc, "CipherData", xmlSecEncNs)]

\* the positions of the children the driver walks over: the optional
\* EncryptionMethod, the optional KeyInfo and the node that comes next
EncDataChildren(enc) ==
    LET cur0 == xmlSecGetNextElementNode(enc.kids, 1)
        hasEM == cur0 # 0 /\ xmlSecCheckNodeName(enc.kids[cur0], "EncryptionMethod", xmlSecEncNs)
        cur1 == IF hasEM THEN xmlSecGetNextElementNode(enc.kids, cur0 + 1) ELSE cur0
        hasKI == cur1 # 0 /\ xmlSecCheckNodeName(enc.kids[cur1], "KeyInfo", xmlSecDSigNs)
    IN [hasEM |-> hasEM, method |-> cur0,
        keyInfoNode |-> IF hasKI THEN cur1 ELSE 0,
        cur |-> IF hasKI THEN xmlSecGetNextElementNode(enc.kids, cur1 + 1) ELSE cur1]

\* the mutant of C12: the key manager finds a key whenever it is asked
GetKeyAlwaysFinds(m, keyInfoNode, alg) ==
    LET hints == [keyType |-> IF m.res.encrypt = 1 THEN EncKeyType(alg) ELSE DecKeyType(alg),
                  keyUsage |-> IF m.res.encrypt = 1 THEN "encrypt" ELSE "decrypt",
                  keyId |-> KeyIdOf(alg)]
    IN Alloc(Ev([m EXCEPT !.kmctx = hints, !.kmAtCall = hints, !.res.key = KM1],
                <<"GetKey", keyInfoNode>>), "key")

\* the mutant of C11: the hints are those of a decryption in both directions
GetKeyDecryptHints(m, keyInfoNode, alg) ==
    LET hints == [keyType |-> DecKeyType(alg), keyUsage |-> "decrypt", keyId |-> KeyIdOf(alg)]
        found == IF m.in.km = "k1" THEN KM1 ELSE NoKey
        x == Ev([m EXCEPT !.kmctx = hints, !.kmAtCall = hints, !.res.key = found],
                <<"GetKey", keyInfoNode>>)
    IN IF found # NoKey THEN Alloc(x, "key") ELSE x

\* the key manager is asked for a key under the hints the Ctx is given: the
\* key type and usage of the direction, the key id of the method; the log
\* keeps the position of the KeyInfo node the callback gets, 0 for null
xmlSecKeysMngrGetKey(m, keyInfoNode, alg) ==
    LET hints == [keyType |-> IF m.res.encrypt = 1 THEN EncKeyType(alg) ELSE DecKeyType(alg),
                  keyUsage |-> IF m.res.encrypt = 1 THEN "encrypt" ELSE "decrypt",
                  keyId |-> KeyIdOf(alg)]
        found == IF m.in.km = "k1" THEN KM1 ELSE NoKey
        x == Ev([m EXCEPT !.kmctx = hints, !.kmAtCall = hints, !.res.key = found],
                <<"GetKey", keyInfoNode>>)
    IN IF found # NoKey THEN Alloc(x, "key") ELSE x

\* the mutant of C28: the cipher is set to encrypt whatever the Session does
SetEncryptAlways(m, t, encrypt) ==
    Ev([m EXCEPT !.tr[t].encrypt = 1, !.tr[t].nset = @ + 1], <<"SetEncrypt">>)

\* the direction of the transform is set; nset counts the times
xmlSecBinTransformSetEncrypt(m, t, encrypt) ==
    Ev([m EXCEPT !.tr[t].encrypt = encrypt, !.tr[t].nset = @ + 1], <<"SetEncrypt">>)

\* the mutant of C3: the Ctx always counts as having a default method
CtxHasMethodAlways(m) == TRUE

\* ctx->encryptionMethod != xmlSecTransformUnknown
CtxHasMethod(m) == m.in.defMethod # NULL

\* the element the driver stands on when it is done: the one after the
\* CipherData node and after the optional EncryptionProperties, 0 when none
TrailingNode(enc, cipherData) ==
    LET cur == xmlSecGetNextElementNode(enc.kids, cipherData + 1)
    IN IF cur # 0 /\ xmlSecCheckNodeName(enc.kids[cur], "EncryptionProperties", xmlSecEncNs)
       THEN xmlSecGetNextElementNode(enc.kids, cur + 1)
       ELSE cur

\* the mutant of C36: an element that is left is an error when encrypting
RejectsTrailingOnEncrypt(encrypt, cur) == encrypt = 1 /\ cur # 0

\* the test of the element that is left is commented out in the driver: no
\* element that is left is an error
RejectsTrailing(encrypt, cur) == FALSE

\* the end of the driver
DriverDone(m) ==
    IF RejectsTrailing(m.encrypt, TrailingNode(m.enc, m.cipherDataNode))
    THEN Fail(m, "INVALID_NODE")
    ELSE [m EXCEPT !.ret = 0]

xmlSecEncryptedDataNodeRead(m) ==
    Let(EncDataChildren(m.enc), LAMBDA c :
    Let([m EXCEPT !.res.id = xmlGetProp(m.enc, "Id"),
                  !.res.type = xmlGetProp(m.enc, "Type"),
                  !.res.mimeType = xmlGetProp(m.enc, "MimeType"),
                  !.res.encoding = xmlGetProp(m.enc, "Encoding")], LAMBDA ma :
    \* first node is optional EncryptionMethod
    IF ~c.hasEM /\ ~CtxHasMethod(m) THEN Fail(ma, "INVALID_DATA")
    ELSE
    Let(IF c.hasEM THEN xmlGetProp(m.enc.kids[c.method], "Algorithm") ELSE m.in.defMethod,
        LAMBDA alg :
    \* xmlSecTransformNodeRead knows the algorithm or returns NULL
    Let(IF c.hasEM /\ alg \notin {"aes128-cbc", "c14n"} THEN [ma EXCEPT !.new = 0]
        ELSE CreateTransform(ma, IF alg = "c14n" THEN "c14n" ELSE "cipher", alg,
                             "MethodCreate"), LAMBDA mb :
    IF mb.new = 0 THEN Fail(mb, "XMLSEC_FAILED")
    ELSE
    Let(xmlSecEncStateAddTransform(mb, mb.new), LAMBDA mc :
    IF mc.ret < 0 THEN xmlSecTransformDestroy(Fail(mc, "XMLSEC_FAILED"), mb.new)
    ELSE
    Let([xmlSecBinTransformSetEncrypt(mc, mb.new, mc.encrypt)
            EXCEPT !.res.encryptionMethod = alg], LAMBDA md :
    \* now we are ready to get key, KeyInfo node may be NULL!
    Let(IF md.res.key = NoKey /\ m.in.km # "none"
        THEN xmlSecKeysMngrGetKey(md, c.keyInfoNode, alg) ELSE md, LAMBDA me :
    IF me.res.key = NoKey THEN Fail(me, "KEY_NOT_FOUND")
    ELSE IF Faulty(me, "AddKey") THEN Hit(Fail(me, "XMLSEC_FAILED"))
    ELSE
    Let(Ev([me EXCEPT !.tr[mb.new].key = me.res.key.value], <<"AddKey">>), LAMBDA mf :
    IF mf.res.encrypt = 1 /\ c.keyInfoNode # 0 /\ Faulty(mf, "KeyInfoWrite")
    THEN Hit(Fail(mf, "XMLSEC_FAILED"))
    ELSE
    Let(IF mf.res.encrypt = 1 /\ c.keyInfoNode # 0
        THEN Ev([mf EXCEPT !.enc.kids[c.keyInfoNode] = xmlSecKeyInfoNodeWrite(@, mf.res.key)],
                <<"KeyInfoWrite">>)
        ELSE mf, LAMBDA mg :
    \* next is required CipherData node
    IF c.cur = 0 \/ ~xmlSecCheckNodeName(m.enc.kids[c.cur], "CipherData", xmlSecEncNs)
    THEN Fail(mg, "INVALID_NODE")
    ELSE
    Let(Ev([mg EXCEPT !.cipherDataNode = c.cur], <<"CipherData">>), LAMBDA mh :
    IF mh.encrypt # 1 THEN DriverDone(mh)
    ELSE
    \* last transform for encryption is base64 encode
    Let(CreateTransform(mh, "b64enc", "base64-encode", "Base64Create"), LAMBDA mi :
    IF mi.new = 0 THEN Fail(mi, "XMLSEC_FAILED")
    ELSE
    Let(xmlSecEncStateAddTransform(mi, mi.new), LAMBDA mj :
    IF mj.ret < 0 THEN xmlSecTransformDestroy(Fail(mj, "XMLSEC_FAILED"), mi.new)
    ELSE
    \* add mem buf at the end
    Let(CreateTransform(mj, "membuf", "membuf", "MemBufCreate"), LAMBDA mk :
    IF mk.new = 0 THEN Fail(mk, "XMLSEC_FAILED")
    ELSE
    Let(xmlSecEncStateAddTransform(mk, mk.new), LAMBDA ml :
    IF ml.ret < 0 THEN xmlSecTransformDestroy(Fail(ml, "XMLSEC_FAILED"), mk.new)
    ELSE DriverDone(ml)))))))))))))))

xmlSecEncStateCreate(m, encrypt) ==
    IF Faulty(m, "StateAlloc") THEN Hit(Fail(m, "MALLOC_FAILED"))
    ELSE
    Let(xmlSecEncryptedDataNodeRead(
            Ev(Alloc([m EXCEPT !.encrypt = encrypt, !.first = 0, !.last = 0,
                               !.cipherDataNode = 0], "Session"), <<"StateCreate">>)),
        LAMBDA m2 :
    IF m2.ret < 0
    THEN [xmlSecEncStateDestroy(Fail(m2, "XMLSEC_FAILED")) EXCEPT !.ret = -1]
    ELSE m2)

----------------------------------------------------------------------------
(* The CipherData driver *)

\* the kinds of the transforms of the chain, from first on
ChainKinds(m) ==
    LET c == ChainFrom(m.tr, m.first, Len(m.tr))
    IN [i \in 1..Len(c) |-> m.tr[c[i]].kind]

\* xmlSecBinTransformWrite and xmlSecBinTransformFlush on the first transform
ChainWrite(m, data, final) ==
    Let(Ev(m, <<IF final THEN "Flush" ELSE "Write", ChainKinds(m)>>), LAMBDA m1 :
    IF Faulty(m, IF final THEN "Flush" ELSE "Write") THEN Hit(Fail(m1, "XMLSEC_FAILED"))
    ELSE
    Let(Push(m.tr, m.first, data, final), LAMBDA r :
    IF ~r.ok THEN Fail([m1 EXCEPT !.tr = r.tr], "XMLSEC_FAILED")
    ELSE [m1 EXCEPT !.tr = r.tr, !.ret = 0]))

\* the mutant of C27: the sink goes on owning the buffer the Result is given
GetBufferShared(m) ==
    IF Faulty(m, "GetBuffer") THEN Hit([m EXCEPT !.res.buffer = NoBuf])
    ELSE IF m.last = 0 THEN [m EXCEPT !.res.buffer = NoBuf]
    ELSE IF m.tr[m.last].kind # "membuf" \/ ~m.tr[m.last].buf.has
    THEN [m EXCEPT !.res.buffer = NoBuf]
    ELSE Ev([m EXCEPT !.res.buffer = m.tr[m.last].buf], <<"GetBuffer">>)

\* xmlSecMemBufTransformGetBuffer(last, 1): the sink's buffer goes to the
\* Result and the sink no longer owns it
GetBuffer(m) ==
    IF Faulty(m, "GetBuffer") THEN Hit([m EXCEPT !.res.buffer = NoBuf])
    ELSE IF m.last = 0 THEN [m EXCEPT !.res.buffer = NoBuf]
    ELSE IF m.tr[m.last].kind # "membuf" \/ ~m.tr[m.last].buf.has
    THEN [m EXCEPT !.res.buffer = NoBuf]
    ELSE Ev([m EXCEPT !.res.buffer = m.tr[m.last].buf, !.tr[m.last].buf = NoBuf],
            <<"GetBuffer">>)

\* the mutant of C23: a new CipherValue is added whatever CipherData holds
CipherDataNodeWriteAdds(cipherDataNode, buf, fault) ==
    LET cd == xmlSecAddChild(cipherDataNode, "CipherValue", xmlSecEncNs)
    IN IF fault = "AddChild"
       THEN [node |-> cipherDataNode, ok |-> FALSE, err |-> "XMLSEC_FAILED", hit |-> TRUE]
       ELSE [node |-> [cd EXCEPT !.kids[Len(cd.kids)] = SetCipherText(@, buf)],
             ok |-> TRUE, err |-> NULL, hit |-> FALSE]

\* the mutant of C31: the element that is left after the write is not
\* looked at
CipherDataNodeWriteLenient(cipherDataNode, buf, fault) ==
    LET cur == xmlSecGetNextElementNode(cipherDataNode.kids, 1)
        W(node, ok, err, hit) == [node |-> node, ok |-> ok, err |-> err, hit |-> hit]
    IN IF cur = 0
       THEN IF fault = "AddChild"
            THEN W(cipherDataNode, FALSE, "XMLSEC_FAILED", TRUE)
            ELSE LET cd == xmlSecAddChild(cipherDataNode, "CipherValue", xmlSecEncNs)
                 IN W([cd EXCEPT !.kids[Len(cd.kids)] = SetCipherText(@, buf)],
                      TRUE, NULL, FALSE)
       ELSE IF xmlSecCheckNodeName(cipherDataNode.kids[cur], "CipherValue", xmlSecEncNs)
            THEN W([cipherDataNode EXCEPT !.kids[cur] = SetCipherText(@, buf)],
                   TRUE, NULL, FALSE)
            ELSE W(cipherDataNode, TRUE, NULL, FALSE)

\* the mutant of C32: the element that is left is looked at before the text
\* of the CipherValue is written
CipherDataNodeWriteAtomic(cipherDataNode, buf, fault) ==
    LET cur == xmlSecGetNextElementNode(cipherDataNode.kids, 1)
        W(node, ok, err, hit) == [node |-> node, ok |-> ok, err |-> err, hit |-> hit]
    IN IF cur = 0
       THEN IF fault = "AddChild"
            THEN W(cipherDataNode, FALSE, "XMLSEC_FAILED", TRUE)
            ELSE LET cd == xmlSecAddChild(cipherDataNode, "CipherValue", xmlSecEncNs)
                 IN W([cd EXCEPT !.kids[Len(cd.kids)] = SetCipherText(@, buf)],
                      TRUE, NULL, FALSE)
       ELSE
       LET isCV == xmlSecCheckNodeName(cipherDataNode.kids[cur], "CipherValue", xmlSecEncNs)
           isCR == xmlSecCheckNodeName(cipherDataNode.kids[cur], "CipherReference", xmlSecEncNs)
           nxt == IF isCV \/ isCR THEN xmlSecGetNextElementNode(cipherDataNode.kids, cur + 1)
                  ELSE cur
       IN IF nxt # 0 THEN W(cipherDataNode, FALSE, "INVALID_NODE", FALSE)
          ELSE IF isCV
               THEN W([cipherDataNode EXCEPT !.kids[cur] = SetCipherText(@, buf)],
                      TRUE, NULL, FALSE)
               ELSE W(cipherDataNode, TRUE, NULL, FALSE)

\* [node, ok, err, hit]: the CipherData node after the write
xmlSecCipherDataNodeWrite(cipherDataNode, buf, fault) ==
    LET cur == xmlSecGetNextElementNode(cipherDataNode.kids, 1)
        W(node, ok, err, hit) == [node |-> node, ok |-> ok, err |-> err, hit |-> hit]
    IN IF cur = 0
       THEN IF fault = "AddChild"
            THEN W(cipherDataNode, FALSE, "XMLSEC_FAILED", TRUE)
            ELSE LET cd == xmlSecAddChild(cipherDataNode, "CipherValue", xmlSecEncNs)
                 IN W([cd EXCEPT !.kids[Len(cd.kids)] = SetCipherText(@, buf)],
                      TRUE, NULL, FALSE)
       ELSE
       LET isCV == xmlSecCheckNodeName(cipherDataNode.kids[cur], "CipherValue", xmlSecEncNs)
           isCR == xmlSecCheckNodeName(cipherDataNode.kids[cur], "CipherReference", xmlSecEncNs)
           cd == IF isCV THEN [cipherDataNode EXCEPT !.kids[cur] = SetCipherText(@, buf)]
                 ELSE cipherDataNode
           nxt == IF isCV \/ isCR THEN xmlSecGetNextElementNode(cipherDataNode.kids, cur + 1)
                  ELSE cur
       IN IF nxt # 0 THEN W(cd, FALSE, "INVALID_NODE", FALSE)
          ELSE W(cd, TRUE, NULL, FALSE)

xmlSecEncStateWriteResult(m) ==
    \* update template
    Let(GetBuffer(m), LAMBDA m1 :
    IF ~m1.res.buffer.has
    THEN [xmlSecEncStateDestroy(xmlSecEncResultDestroy(Fail(m1, "XMLSEC_FAILED")))
             EXCEPT !.ret = -1]
    ELSE
    Let(xmlSecCipherDataNodeWrite(m1.enc.kids[m1.cipherDataNode], m1.res.buffer.data,
                                  m1.in.fault), LAMBDA w :
    Let(Ev([m1 EXCEPT !.enc.kids[m1.cipherDataNode] = w.node, !.hit = @ \/ w.hit],
           <<"CipherDataWrite">>), LAMBDA m2 :
    IF ~w.ok
    THEN [xmlSecEncStateDestroy(xmlSecEncResultDestroy(
              Fail(Fail(m2, w.err), "XMLSEC_FAILED"))) EXCEPT !.ret = -1]
    ELSE [m2 EXCEPT !.ret = 0])))

xmlSecCipherValueNodeRead(m, cur) ==
    \* first transform for decryption is base64 decode
    Let(CreateTransform(m, "b64dec", "base64-decode", "Base64Create"), LAMBDA ma :
    IF ma.new = 0 THEN Fail(ma, "XMLSEC_FAILED")
    ELSE
    Let(xmlSecEncStateAddFirstTransform(ma, ma.new), LAMBDA mb :
    IF mb.ret < 0 THEN xmlSecTransformDestroy(Fail(mb, "XMLSEC_FAILED"), ma.new)
    ELSE
    \* add mem buf at the end
    Let(CreateTransform(mb, "membuf", "membuf", "MemBufCreate"), LAMBDA mc :
    IF mc.new = 0 THEN Fail(mc, "XMLSEC_FAILED")
    ELSE
    Let(xmlSecEncStateAddTransform(mc, mc.new), LAMBDA md :
    IF md.ret < 0 THEN xmlSecTransformDestroy(Fail(md, "XMLSEC_FAILED"), mc.new)
    ELSE IF Faulty(md, "NodeContent") THEN Hit(Fail(md, "INVALID_NODE_CONTENT"))
    ELSE
    Let(ChainWrite(Alloc(md, "content"),
                   xmlNodeGetContent(md.enc.kids[md.cipherDataNode].kids[cur]), FALSE),
        LAMBDA me :
    IF me.ret < 0 THEN Release(me, "content")
    ELSE
    Let(ChainWrite(me, <<>>, TRUE), LAMBDA mf :
    IF mf.ret < 0 THEN Release(mf, "content")
    ELSE
    Let(GetBuffer(mf), LAMBDA mg :
    IF ~mg.res.buffer.has THEN Release(Fail(mg, "XMLSEC_FAILED"), "content")
    ELSE [Release(mg, "content") EXCEPT !.ret = 0])))))))

\* the external pipeline runs its octets through the transforms read from
\* the Transforms node and then through the transforms moved onto it
RECURSIVE Pipe(_, _, _)
Pipe(ts, i, data) ==
    IF i > Len(ts) THEN [ok |-> TRUE, out |-> data]
    ELSE LET w == TransformWrite(ts[i], data)
             f == TransformFinal([ts[i] EXCEPT !.pad = w.pad])
         IN IF ~w.ok \/ ~f.ok THEN [ok |-> FALSE, out |-> <<>>]
            ELSE Pipe(ts, i + 1, w.out \o f.out)

\* one round of the loop that moves the chain: the first transform leaves
\* the chain and is given to the pipeline; when the pipeline refuses it
\* (fails) the transform is destroyed
MoveStep(m, fails) ==
    Let(Ev([m EXCEPT !.first = m.tr[m.first].next,
                     !.tr = [i \in 1..Len(m.tr) |->
                                IF i = m.first THEN [m.tr[i] EXCEPT !.next = 0]
                                ELSE IF i = m.tr[m.first].next THEN [m.tr[i] EXCEPT !.prev = 0]
                                ELSE m.tr[i]]],
           <<"Move", m.first>>), LAMBDA m1 :
    IF fails THEN xmlSecBinTransformDestroyAll(Fail(m1, "XMLSEC_FAILED"), m.first)
    ELSE [m1 EXCEPT !.pipeline = Append(@, m.first), !.ret = 0])

\* copy all transforms from encryption state to transform state
RECURSIVE MoveTransforms(_)
MoveTransforms(m) ==
    IF m.first = 0 THEN [m EXCEPT !.ret = 0]
    ELSE
    Let(MoveStep(m, Faulty(m, "StateUpdate")), LAMBDA m1 :
    IF m1.ret < 0 THEN Hit(m1) ELSE MoveTransforms(m1))

\* xmlSecTransformStateDestroy: the pipeline goes with the transforms it owns
TransformStateDestroy(m) ==
    Release(DestroySet(m, {m.pipeline[i] : i \in 1..Len(m.pipeline)}), "tstate")

\* the optional Transforms child of a CipherReference, the transforms it
\* names and the node that comes next
ReferenceChildren(cr) ==
    LET cur0 == xmlSecGetNextElementNode(cr.kids, 1)
        hasT == cur0 # 0 /\ xmlSecCheckNodeName(cr.kids[cur0], "Transforms", xmlSecEncNs)
        T == IF hasT THEN SelectSeq(cr.kids[cur0].kids, IsElem) ELSE <<>>
    IN [hasT |-> hasT,
        cur |-> IF hasT THEN xmlSecGetNextElementNode(cr.kids, cur0 + 1) ELSE cur0,
        algs |-> [i \in 1..Len(T) |->
                     NewTransform(IF xmlGetProp(T[i], "Algorithm") = "base64"
                                  THEN "b64dec" ELSE "other",
                                  xmlGetProp(T[i], "Algorithm"))]]

xmlSecCipherReferenceNodeRead(m, crIdx) ==
    Let(ReferenceChildren(m.enc.kids[m.cipherDataNode].kids[crIdx]), LAMBDA c :
    IF Faulty(m, "TStateCreate") THEN Hit(Fail(m, "XMLSEC_FAILED"))
    ELSE
    Let(Ev(Alloc(m, "tstate"), <<"TStateCreate">>), LAMBDA ma :
    IF c.hasT /\ Faulty(ma, "TransformsRead")
    THEN [TransformStateDestroy(Hit(Fail(ma, "XMLSEC_FAILED"))) EXCEPT !.ret = -1]
    ELSE IF c.cur # 0
    THEN [TransformStateDestroy(Fail(ma, "INVALID_NODE")) EXCEPT !.ret = -1]
    ELSE
    \* copy all transforms from encryption state to transform state
    Let(MoveTransforms(ma), LAMBDA mb :
    IF mb.ret < 0 THEN [TransformStateDestroy(mb) EXCEPT !.ret = -1]
    ELSE
    Let([mb EXCEPT !.last = 0], LAMBDA mc :
    IF Faulty(mc, "StateFinal")
    THEN [TransformStateDestroy(Fail(Hit(mc), "XMLSEC_FAILED")) EXCEPT !.ret = -1]
    ELSE
    Let(Pipe(c.algs \o [i \in 1..Len(mc.pipeline) |-> mc.tr[mc.pipeline[i]]], 1,
             m.in.uriData), LAMBDA r :
    IF ~r.ok THEN [TransformStateDestroy(Fail(mc, "XMLSEC_FAILED")) EXCEPT !.ret = -1]
    ELSE [TransformStateDestroy(
             Ev(Alloc([mc EXCEPT !.res.buffer = Buf(r.out)], "buffer"), <<"StateFinal">>))
           EXCEPT !.ret = 0])))))

\* the mutant of C22: the node after a CipherValue or a CipherReference is
\* not looked at
CipherDataChildrenFirstOnly(cd) ==
    LET cur == xmlSecGetNextElementNode(cd.kids, 1)
        isCV == cur # 0 /\ xmlSecCheckNodeName(cd.kids[cur], "CipherValue", xmlSecEncNs)
        isCR == cur # 0 /\ xmlSecCheckNodeName(cd.kids[cur], "CipherReference", xmlSecEncNs)
    IN [first |-> cur, isCV |-> isCV, isCR |-> isCR,
        cur |-> IF isCV \/ isCR THEN 0 ELSE cur]

\* the first element child of CipherData, what it is, and the node that
\* comes after a CipherValue or a CipherReference
CipherDataChildren(cd) ==
    LET cur == xmlSecGetNextElementNode(cd.kids, 1)
        isCV == cur # 0 /\ xmlSecCheckNodeName(cd.kids[cur], "CipherValue", xmlSecEncNs)
        isCR == cur # 0 /\ xmlSecCheckNodeName(cd.kids[cur], "CipherReference", xmlSecEncNs)
    IN [first |-> cur, isCV |-> isCV, isCR |-> isCR,
        cur |-> IF isCV \/ isCR THEN xmlSecGetNextElementNode(cd.kids, cur + 1) ELSE cur]

xmlSecCipherDataNodeRead(m) ==
    Let(CipherDataChildren(m.enc.kids[m.cipherDataNode]), LAMBDA c :
    Let(IF c.isCV THEN xmlSecCipherValueNodeRead(m, c.first)
        ELSE IF c.isCR THEN xmlSecCipherReferenceNodeRead(m, c.first)
        ELSE [m EXCEPT !.ret = 0], LAMBDA m1 :
    IF m1.ret < 0 THEN Fail(m1, "XMLSEC_FAILED")
    ELSE IF c.cur # 0 THEN Fail(m1, "INVALID_NODE")
    ELSE [m1 EXCEPT !.ret = 0]))

----------------------------------------------------------------------------
(* The four operations *)

\* xmlSecKeyDuplicate copies the key; the caller copies the origin tag
xmlSecKeyDuplicate(key) == [key EXCEPT !.origin = NULL]

\* the mutant of C13: the duplicate keeps the origin tag the copy gave it
KeepDupOrigin(dup, key) == dup

\* res->key->origin = key->origin
CopyOrigin(dup, key) == [dup EXCEPT !.origin = key.origin]

\* the mutant of C14: the IDs are registered once the Session is built
OpBeginIdsAfterState(m, encrypt) ==
    Let(xmlSecEncResultCreate(m, encrypt), LAMBDA m1 :
    IF m1.ret < 0 THEN Fail(m1, "XMLSEC_FAILED")
    ELSE IF m.in.key # NoKey /\ Faulty(m1, "KeyDup")
    THEN Hit([m1 EXCEPT !.crash = TRUE, !.ret = -1])
    ELSE
    Let(xmlSecEncStateCreate(
            IF m.in.key # NoKey
            THEN Ev(Alloc([m1 EXCEPT !.res.key = CopyOrigin(xmlSecKeyDuplicate(m.in.key),
                                                            m.in.key)],
                          "key"), <<"KeyDuplicate">>)
            ELSE m1, encrypt), LAMBDA m4 :
    IF m4.ret < 0
    THEN [xmlSecEncResultDestroy(Fail(m4, "XMLSEC_FAILED")) EXCEPT !.ret = -1]
    ELSE [xmlSecAddIDs(m4) EXCEPT !.ret = 0]))

\* the start of every operation: the Result, the duplicate of the caller's
\* key, the IDs and the Session.  A failed duplication is not checked: the
\* write of the origin tag goes through a null pointer.
OpBegin(m, encrypt) ==
    Let(xmlSecEncResultCreate(m, encrypt), LAMBDA m1 :
    IF m1.ret < 0 THEN Fail(m1, "XMLSEC_FAILED")
    ELSE IF m.in.key # NoKey /\ Faulty(m1, "KeyDup")
    THEN Hit([m1 EXCEPT !.crash = TRUE, !.ret = -1])
    ELSE
    Let(xmlSecEncStateCreate(
            xmlSecAddIDs(IF m.in.key # NoKey
                         THEN Ev(Alloc([m1 EXCEPT !.res.key =
                                           CopyOrigin(xmlSecKeyDuplicate(m.in.key),
                                                      m.in.key)],
                                       "key"), <<"KeyDuplicate">>)
                         ELSE m1), encrypt), LAMBDA m4 :
    IF m4.ret < 0
    THEN [xmlSecEncResultDestroy(Fail(m4, "XMLSEC_FAILED")) EXCEPT !.ret = -1]
    ELSE m4))

\* the error exits that destroy the Result and then the Session
OpAbortAs(m, kind) ==
    [xmlSecEncStateDestroy(xmlSecEncResultDestroy(Fail(m, kind))) EXCEPT !.ret = -1]

OpAbort(m) == OpAbortAs(m, "XMLSEC_FAILED")

\* the error exits that destroy the Session and then the Result
OpAbortStateFirst(m) ==
    [xmlSecEncResultDestroy(xmlSecEncStateDestroy(Fail(m, "XMLSEC_FAILED"))) EXCEPT !.ret = -1]

\* the mutant of C10: the Result is handed over whether or not a slot is given
OpEndAlwaysHands(m) ==
    [xmlSecEncStateDestroy(Ev([m EXCEPT !.handed = TRUE], <<"Handed">>)) EXCEPT !.ret = 0]

\* the mutant of C29: at cleanup the Session is destroyed before the Result
OpEndStateFirst(m) ==
    [(IF m.in.slot THEN Ev([xmlSecEncStateDestroy(m) EXCEPT !.handed = TRUE], <<"Handed">>)
      ELSE xmlSecEncResultDestroy(xmlSecEncStateDestroy(m))) EXCEPT !.ret = 0]

\* cleanup: the Result goes to the caller's slot or is destroyed
OpEnd(m) ==
    [xmlSecEncStateDestroy(IF m.in.slot THEN Ev([m EXCEPT !.handed = TRUE], <<"Handed">>)
                           ELSE xmlSecEncResultDestroy(m)) EXCEPT !.ret = 0]

xmlSecEncryptMemory(m) ==
    Let(OpBegin(m, 1), LAMBDA m1 :
    IF m1.ret < 0 THEN m1
    ELSE
    \* encrypt the data
    Let(ChainWrite(m1, m.in.buf, FALSE), LAMBDA m2 :
    IF m2.ret < 0 THEN OpAbort(m2)
    ELSE
    Let(ChainWrite(m2, <<>>, TRUE), LAMBDA m3 :
    IF m3.ret < 0 THEN OpAbort(m3)
    ELSE
    Let(xmlSecEncStateWriteResult(m3), LAMBDA m4 :
    IF m4.ret < 0 THEN OpAbortStateFirst(m4)
    ELSE OpEnd(m4)))))

\* the read loop pulls the octets of the URI through the chain to its end
ChainRead(m) ==
    Let(Ev(m, <<"Read", ChainKinds(m)>>), LAMBDA m1 :
    IF Faulty(m, "Read") THEN Hit(Fail(m1, "XMLSEC_FAILED"))
    ELSE
    Let(IF m.tr[m.first].kind = "uri"
        THEN Push(m.tr, m.tr[m.first].next, m.in.uriData, TRUE)
        ELSE Push(m.tr, m.first, <<>>, TRUE), LAMBDA r :
    IF ~r.ok THEN Fail([m1 EXCEPT !.tr = r.tr], "XMLSEC_FAILED")
    ELSE [m1 EXCEPT !.tr = r.tr, !.ret = 0]))

xmlSecEncryptUri(m) ==
    Let(OpBegin(m, 1), LAMBDA m1 :
    IF m1.ret < 0 THEN m1
    ELSE
    \* add the uri load at the beginning
    Let(CreateTransform(m1, "uri", "input-uri", "UriCreate"), LAMBDA m2 :
    IF m2.new = 0 THEN OpAbort(m2)
    ELSE IF Faulty(m2, "UriOpen") THEN OpAbort(xmlSecTransformDestroy(Hit(m2), m2.new))
    ELSE
    Let(xmlSecEncStateAddFirstTransform(m2, m2.new), LAMBDA m3 :
    IF m3.ret < 0 THEN OpAbort(xmlSecTransformDestroy(m3, m2.new))
    ELSE
    \* encrypt the data
    Let(ChainRead(m3), LAMBDA m4 :
    IF m4.ret < 0 THEN OpAbort(m4)
    ELSE
    Let(xmlSecEncStateWriteResult(m4), LAMBDA m5 :
    IF m5.ret < 0 THEN OpAbortStateFirst(m5)
    ELSE OpEnd(m5))))))

\* xmlSecReplaceNode(src, encNode): the EncryptedData node takes the place of
\* the source node, which leaves its document
xmlSecReplaceNode(m) ==
    [m EXCEPT !.docD = ReplaceAt(m.docD, m.in.src, <<m.enc>>),
              !.tmplD = <<>>,
              !.encLoc = [d |-> "doc", path |-> m.in.src]]

\* xmlSecReplaceContent(src, encNode): the EncryptedData node becomes the only
\* child of the source node
xmlSecReplaceContent(m) ==
    [m EXCEPT !.docD = ReplaceAt(m.docD, m.in.src,
                                 <<[GetAt(m.docD, m.in.src) EXCEPT !.kids = <<m.enc>>]>>),
              !.tmplD = <<>>,
              !.encLoc = [d |-> "doc", path |-> m.in.src \o <<1>>]]

\* the mutant of C9: the source node is always dumped whole
DumpWholeAlways(ignoreType, type) == TRUE

\* the mutant of C34: a template with no Type is not dumped whole
DumpWholeOnFlag(ignoreType, type) == ignoreType

\* the source node is dumped whole, whatever the Type, when the Ctx ignores
\* the Type or the template has none
DumpWhole(ignoreType, type) == ignoreType \/ type = NULL

\* the mutant of C7: the splice of #Content is made for #Element too
EncryptSpliceAsContent(m) == xmlSecReplaceContent(m)

\* the mutant of C8: the splice of #Element is made for #Content too
EncryptSpliceAsElement(m) == xmlSecReplaceNode(m)

\* the splice of encrypt_xml_node, by the Type of the Result
EncryptSplice(m) ==
    IF m.res.type = xmlSecEncTypeElement THEN xmlSecReplaceNode(m)
    ELSE xmlSecReplaceContent(m)

\* the mutant of C15: the flag of the Ctx is not looked at
SplicesWhateverFlag(ignoreType, type) == type # NULL

\* the tree is spliced when the Ctx does not ignore the Type and the
\* template has one
Splices(ignoreType, type) == ~ignoreType /\ type # NULL

\* the mutant of C17: every Type counts as known
KnownTypeAny(type) == TRUE

\* xmlStrEqual(type, xmlSecEncTypeElement) or xmlStrEqual(type, xmlSecEncTypeContent)
KnownType(type) == type \in {xmlSecEncTypeElement, xmlSecEncTypeContent}

\* the mutant of C35: decrypt splices for #Element only
DecryptSplicesElementOnly(ignoreType, type) ==
    Splices(ignoreType, type) /\ type = xmlSecEncTypeElement

\* the mutant of C16: decrypt splices for a Type it does not know
DecryptSplicesAnyType(ignoreType, type) == Splices(ignoreType, type)

\* decrypt replaces the EncryptedData node by the plaintext
DecryptSplices(ignoreType, type) == Splices(ignoreType, type) /\ KnownType(type)

xmlSecEncryptXmlNode(m) ==
    Let(OpBegin(m, 1), LAMBDA m1 :
    IF m1.ret < 0 THEN m1
    ELSE IF Faulty(m1, "BufferCreate") THEN OpAbort(Hit(m1))
    ELSE
    Let(Alloc(m1, "xmlbuf"), LAMBDA m2 :
    IF ~DumpWhole(m.in.ignoreType, m2.res.type) /\ ~KnownType(m2.res.type)
    THEN OpAbortAs(Release(m2, "xmlbuf"), "INVALID_TYPE")
    ELSE
    Let(IF DumpWhole(m.in.ignoreType, m2.res.type) \/ m2.res.type = xmlSecEncTypeElement
        THEN xmlNodeDump(GetAt(m2.docD, m.in.src))
        ELSE DumpItems(GetAt(m2.docD, m.in.src).kids), LAMBDA buffer :
    Let(Release(ChainWrite(Ev(m2, <<"Dump", buffer>>), buffer, FALSE), "xmlbuf"), LAMBDA m3 :
    IF m3.ret < 0 THEN OpAbort(m3)
    ELSE
    Let(ChainWrite(m3, <<>>, TRUE), LAMBDA m4 :
    IF m4.ret < 0 THEN OpAbort(m4)
    ELSE
    Let(xmlSecEncStateWriteResult(m4), LAMBDA m5 :
    IF m5.ret < 0 THEN OpAbortStateFirst(m5)
    ELSE IF Splices(m.in.ignoreType, m5.res.type) /\ KnownType(m5.res.type)
    THEN IF Faulty(m5, "ReplaceNode") THEN OpAbortStateFirst(Hit(m5))
         ELSE OpEnd(Ev([EncryptSplice(m5) EXCEPT !.res.replaced = 1], <<"Replace">>))
    ELSE OpEnd(m5)))))))

\* xmlSecReplaceNodeBuffer(encNode, buffer): the parse of the buffer takes the
\* place of the EncryptedData node; [ok, m]
xmlSecReplaceNodeBuffer(m) ==
    Let(xmlParse(m.res.buffer.data), LAMBDA p :
    IF ~p.ok THEN [ok |-> FALSE, m |-> m]
    ELSE [ok |-> TRUE,
          m |-> IF m.encLoc.d = "doc"
                THEN [m EXCEPT !.docD = ReplaceAt(m.docD, m.encLoc.path, p.items),
                               !.encLoc = [d |-> "gone", path |-> <<>>]]
                ELSE [m EXCEPT !.tmplD = ReplaceAt(m.tmplD, m.encLoc.path, p.items),
                               !.encLoc = [d |-> "gone", path |-> <<>>]]])

xmlSecDecrypt(m) ==
    Let(OpBegin(m, 0), LAMBDA m1 :
    IF m1.ret < 0 THEN m1
    ELSE IF m1.cipherDataNode = 0
    THEN OpAbortAs(m1, "NODE_NOT_FOUND")
    ELSE
    Let(xmlSecCipherDataNodeRead(m1), LAMBDA m2 :
    IF m2.ret < 0 \/ ~m2.res.buffer.has THEN OpAbort(m2)
    ELSE IF DecryptSplices(m.in.ignoreType, m2.res.type)
    THEN IF Faulty(m2, "ReplaceNode") THEN OpAbort(Hit(m2))
         ELSE Let(xmlSecReplaceNodeBuffer(m2), LAMBDA r :
              IF ~r.ok THEN OpAbort(m2)
              ELSE OpEnd(Ev([r.m EXCEPT !.res.replaced = 1], <<"Replace">>)))
    ELSE OpEnd(m2)))

----------------------------------------------------------------------------
(* The template builders as a state machine: the template starts as the    *)
(* node the creator returns and every action is one builder call.          *)

MaxProps == 2

MaxTransforms == 2

AttrValues == {NULL, "e1"}

TypeValues == {NULL, xmlSecEncTypeElement, xmlSecEncTypeContent, OtherType}

MethodIds == {"aes128-cbc"}

\* the library call that fails during a builder call: the first or the second
\* xmlSecAddChild / xmlSecAddPrevSibling / xmlSecAddNextSibling of the call, or
\* xmlSecTransformNodeWrite
BuildFaults == {"none", "AddChild1", "AddChild2", "NodeWrite"}

BLast(op, pre, r, f) ==
    [op |-> op, pre |-> pre, ok |-> r.ok, err |-> r.err, fault |-> f]

InitBuild ==
    /\ \E id \in AttrValues :
          tmpl = <<xmlSecEncDataCreate(id, xmlSecEncTypeElement, NULL, NULL)>>
    /\ doc = <<>>
    /\ ids = {}
    /\ kmctx = NoKmCtx
    /\ nops = 0
    /\ last = [op |-> "Create"]
    /\ hist = NoHist

Built(op, r, f) ==
    /\ tmpl' = <<r.node>>
    /\ last' = BLast(op, tmpl[1], r, f)
    /\ UNCHANGED <<doc, ids, kmctx, nops, hist>>

PropsOf(encNode) ==
    LET p == xmlSecFindChild(encNode, "EncryptionProperties", xmlSecEncNs)
    IN IF p = 0 THEN 0 ELSE Len(encNode.kids[p].kids)

\* the number of Transform nodes below CipherData/CipherReference/Transforms
TransformsOf(encNode) ==
    LET cd == xmlSecFindChild(encNode, "CipherData", xmlSecEncNs)
        cr == IF cd = 0 THEN 0
              ELSE xmlSecFindChild(encNode.kids[cd], "CipherReference", xmlSecEncNs)
        ts == IF cr = 0 THEN 0
              ELSE xmlSecFindChild(encNode.kids[cd].kids[cr], "Transforms", xmlSecEncNs)
    IN IF ts = 0 THEN 0 ELSE Len(encNode.kids[cd].kids[cr].kids[ts].kids)

AddEncMethod ==
    \E m \in MethodIds, f \in {"none", "AddChild1", "NodeWrite"} :
        Built("AddEncMethod", xmlSecEncDataAddEncMethod(tmpl[1], m, f), f)

AddKeyInfo ==
    \E f \in {"none", "AddChild1"} :
        Built("AddKeyInfo", xmlSecEncDataAddKeyInfo(tmpl[1], f), f)

AddEncProperties ==
    \E id \in AttrValues, f \in {"none", "AddChild1"} :
        Built("AddEncProperties", xmlSecEncDataAddEncProperties(tmpl[1], id, f), f)

AddEncProperty ==
    \E f \in {"none", "AddChild1", "AddChild2"} :
        /\ PropsOf(tmpl[1]) < MaxProps
        /\ Built("AddEncProperty", xmlSecEncDataAddEncProperty(tmpl[1], NULL, "e1", f), f)

AddCipherValue ==
    \E f \in {"none", "AddChild1"} :
        Built("AddCipherValue", xmlSecEncDataAddCipherValue(tmpl[1], f), f)

AddCipherReference ==
    \E uri \in {NULL, "uri1"}, f \in {"none", "AddChild1"} :
        Built("AddCipherReference", xmlSecEncDataAddCipherReference(tmpl[1], uri, f), f)

AddTransform ==
    \E f \in BuildFaults :
        /\ TransformsOf(tmpl[1]) < MaxTransforms
        /\ Built("AddTransform",
                 xmlSecCipherReferenceAddTransform(tmpl[1], "base64", f), f)

NextBuild ==
    \/ AddEncMethod
    \/ AddKeyInfo
    \/ AddEncProperties
    \/ AddEncProperty
    \/ AddCipherValue
    \/ AddCipherReference
    \/ AddTransform

SpecBuild == InitBuild /\ [][NextBuild]_vars

BuilderOps == {"AddEncMethod", "AddKeyInfo", "AddEncProperties", "AddEncProperty",
               "AddCipherValue", "AddCipherReference", "AddTransform"}

IsBuild == last.op \in BuilderOps

CipherDataOf(encNode) == encNode.kids[xmlSecFindChild(encNode, "CipherData", xmlSecEncNs)]

CipherKids(encNode) ==
    CountKids(CipherDataOf(encNode), "CipherValue")
        + CountKids(CipherDataOf(encNode), "CipherReference")

\* C4: CipherData never holds more than one child among CipherValue and
\* CipherReference, and an add-CipherValue or add-CipherReference call made
\* when either child is present fails with NodeAlreadyPresent and leaves the
\* tree as it was.
C4_CipherChildExclusive ==
    /\ CipherKids(tmpl[1]) <= 1
    /\ (IsBuild /\ last.op \in {"AddCipherValue", "AddCipherReference"}
            /\ CipherKids(last.pre) >= 1)
       => (~last.ok /\ last.err = "NODE_ALREADY_PRESENT" /\ tmpl[1] = last.pre)

C4_Witness ==
    /\ IsBuild /\ last.op = "AddCipherReference"
    /\ CountKids(CipherDataOf(last.pre), "CipherValue") = 1
    /\ ~last.ok

SchemaOrder(names) ==
    \E em, ki, ep \in BOOLEAN :
        names = (IF em THEN <<"EncryptionMethod">> ELSE <<>>)
                    \o (IF ki THEN <<"KeyInfo">> ELSE <<>>)
                    \o <<"CipherData">>
                    \o (IF ep THEN <<"EncryptionProperties">> ELSE <<>>)

\* C5: after any sequence of builder calls, failed ones included, the element
\* children of EncryptedData are EncryptionMethod?, KeyInfo?, CipherData,
\* EncryptionProperties? in this order.
C5_SchemaOrder == SchemaOrder(ElemNames(tmpl[1]))

\* KeyInfo and EncryptionMethod were added after EncryptionProperties
C5_Witness ==
    /\ IsBuild /\ last.op = "AddEncMethod" /\ last.ok
    /\ CountKids(last.pre, "KeyInfo") = 1
    /\ CountKids(last.pre, "EncryptionProperties") = 1
    /\ ElemNames(tmpl[1]) =
         <<"EncryptionMethod", "KeyInfo", "CipherData", "EncryptionProperties">>

OpChild(op) ==
    CASE op = "AddEncMethod" -> "EncryptionMethod"
      [] op = "AddKeyInfo" -> "KeyInfo"
      [] OTHER -> "EncryptionProperties"

\* C6: EncryptedData has at most one EncryptionMethod, one KeyInfo and one
\* EncryptionProperties child; add-EncryptionProperty adds its node to the
\* EncryptionProperties that is there; a second add of one of the three fails
\* with NodeAlreadyPresent and leaves the tree as it was.
C6_NoDuplicateChild ==
    /\ \A n \in {"EncryptionMethod", "KeyInfo", "EncryptionProperties"} :
           CountKids(tmpl[1], n) <= 1
    /\ (IsBuild /\ last.op \in {"AddEncMethod", "AddKeyInfo", "AddEncProperties"}
            /\ CountKids(last.pre, OpChild(last.op)) = 1)
       => (~last.ok /\ last.err = "NODE_ALREADY_PRESENT" /\ tmpl[1] = last.pre)
    /\ (IsBuild /\ last.op = "AddEncProperty" /\ last.ok
            /\ CountKids(last.pre, "EncryptionProperties") = 1)
       => PropsOf(tmpl[1]) = PropsOf(last.pre) + 1

C6_Witness ==
    /\ IsBuild /\ last.op = "AddEncProperty" /\ last.ok
    /\ CountKids(last.pre, "EncryptionProperties") = 1
    /\ PropsOf(tmpl[1]) = 2


----------------------------------------------------------------------------
(* One operation on a template and a document, with at most one library    *)
(* call that fails.                                                        *)

\* plaintexts: a text, a well-formed element, and octets that are not XML
PlainText == <<Chr("x")>>

PlainElem == xmlNodeDump(Elem("a", NULL, NoAttrs, <<Chr("x")>>))

PlainBad == <<OpenTag(Elem("a", NULL, NoAttrs, <<>>))>>

PlainTexts == {PlainText, PlainElem, PlainBad}

\* a plaintext that parses to two nodes: a text and an element
PlainPair == DumpItems(<<Chr("x"), Elem("b", NULL, NoAttrs, <<>>)>>)

Aes == "aes128-cbc"

KeyName == Elem("KeyName", xmlSecDSigNs, NoAttrs, <<>>)

Unknown == Elem("Unknown", xmlSecEncNs, NoAttrs, <<>>)

\* the octets the cipher makes of p under the key value k, before base64
RawCipherOf(k, p) == MapSeq(p, LAMBDA x : E(k, x)) \o <<Pad(k)>>

\* the children of the first child of node with the name are set to kids
WithKids(node, name, kids) ==
    LET i == CHOOSE j \in 1..Len(node.kids) : IsElem(node.kids[j]) /\ node.kids[j].name = name
    IN [node EXCEPT !.kids[i].kids = kids]

TBase(type) == xmlSecEncDataCreate("e1", type, NULL, NULL)

TAlgorithm(type, alg) == xmlSecEncDataAddEncMethod(TBase(type), alg, "none").node

TMethod(type) == TAlgorithm(type, Aes)

TKeyInfo(type) ==
    WithKids(xmlSecEncDataAddKeyInfo(TMethod(type), "none").node, "KeyInfo", <<KeyName>>)

\* an encrypted node: the CipherValue holds the ciphertext of p under K1
TValue(type, p) ==
    WithKids(xmlSecEncDataAddCipherValue(TKeyInfo(type), "none").node, "CipherData",
             <<SetCipherText(Elem("CipherValue", xmlSecEncNs, NoAttrs, <<>>),
                             CipherTextOf(K1.value, p))>>)

TReference(type) == xmlSecEncDataAddCipherReference(TMethod(type), "u1", "none").node

TReferenceB64(type) ==
    xmlSecCipherReferenceAddTransform(TReference(type), "base64", "none").node

\* nodes the builders do not make: they come from a parsed document
TBoth(type) ==
    WithKids(TMethod(type), "CipherData",
             <<SetCipherText(Elem("CipherValue", xmlSecEncNs, NoAttrs, <<>>),
                             CipherTextOf(K1.value, PlainText)),
               Elem("CipherReference", xmlSecEncNs, [a \in {"URI"} |-> "u1"], <<>>)>>)

TUnknownChild(type) == WithKids(TMethod(type), "CipherData", <<Unknown>>)

\* a CipherReference with an element after it
TReferenceTrailing(type) ==
    WithKids(TMethod(type), "CipherData",
             <<Elem("CipherReference", xmlSecEncNs, [a \in {"URI"} |-> "u1"], <<>>), Unknown>>)

TNoCipherData(type) ==
    [TMethod(type) EXCEPT !.kids = SelectSeq(@, LAMBDA x : x.name # "CipherData")]

\* a KeyInfo with a KeyName to fill in, and no CipherData
TKeyInfoNoCipherData(type) ==
    [TKeyInfo(type) EXCEPT !.kids = SelectSeq(@, LAMBDA x : x.name # "CipherData")]

TKeyInfoFirst(type) == xmlSecAddPrevSibling(TMethod(type), 1, "KeyInfo", xmlSecDSigNs)

TTrailing(type) == [TMethod(type) EXCEPT !.kids = Append(@, Unknown)]

\* an element after the EncryptionProperties that follow the CipherData
TTrailingProps(type) ==
    [xmlSecEncDataAddEncProperties(TMethod(type), NULL, "none").node
        EXCEPT !.kids = Append(@, Unknown)]

\* an encrypted node with an element after the CipherData or, when props, after
\* the EncryptionProperties that follow it
TValueTrailing(type, props) ==
    [(IF props THEN xmlSecEncDataAddEncProperties(TValue(type, PlainElem), NULL, "none").node
      ELSE TValue(type, PlainElem))
        EXCEPT !.kids = Append(@, Unknown)]

\* a KeyInfo that comes after the CipherData
TKeyInfoLast(type) == xmlSecAddChild(TMethod(type), "KeyInfo", xmlSecDSigNs)

Templates ==
    {TMethod(t) : t \in TypeValues} \cup {TBase(t) : t \in TypeValues}
        \cup {TValue(t, PlainElem) : t \in TypeValues}
        \cup {TKeyInfo(t) : t \in {NULL, xmlSecEncTypeContent}}
        \cup {TValue(xmlSecEncTypeElement, p) : p \in {PlainText, PlainBad}}
        \cup {TValue(t, PlainPair) : t \in {xmlSecEncTypeElement, xmlSecEncTypeContent}}
        \cup {TReference(xmlSecEncTypeElement), TReferenceB64(NULL),
              TBoth(xmlSecEncTypeElement), TUnknownChild(xmlSecEncTypeElement),
              TReferenceTrailing(xmlSecEncTypeElement),
              TKeyInfoNoCipherData(xmlSecEncTypeElement),
              TNoCipherData(xmlSecEncTypeElement), TKeyInfoFirst(xmlSecEncTypeElement),
              TTrailing(xmlSecEncTypeElement), TKeyInfoLast(xmlSecEncTypeElement),
              TTrailingProps(xmlSecEncTypeElement),
              TValueTrailing(xmlSecEncTypeElement, FALSE),
              TValueTrailing(xmlSecEncTypeElement, TRUE),
              TAlgorithm(xmlSecEncTypeElement, "c14n"),
              TAlgorithm(xmlSecEncTypeElement, "bogus")}

\* the source document: a root with an element that has an attribute and a
\* text, followed by a text
SrcElem == Elem("a", NULL, [x \in {"Id"} |-> "a1"], <<Chr("x"), Elem("b", NULL, NoAttrs, <<>>)>>)

Doc1 == <<Elem("root", NULL, NoAttrs, <<SrcElem, Chr("y")>>)>>

\* a document that holds an encrypted node in the place of an element
DocEnc(type) == <<Elem("root", NULL, NoAttrs, <<TValue(type, PlainElem), Chr("y")>>)>>

Docs == {Doc1} \cup {DocEnc(t) : t \in {xmlSecEncTypeElement, xmlSecEncTypeContent}}

Faults ==
    {"none", "ResultAlloc", "KeyDup", "StateAlloc", "MethodCreate", "AddKey",
     "KeyInfoWrite", "Base64Create", "MemBufCreate", "Write", "Flush", "GetBuffer",
     "AddChild", "UriCreate", "UriOpen", "Read", "BufferCreate", "ReplaceNode",
     "NodeContent", "TStateCreate", "TransformsRead", "StateUpdate", "StateFinal"}

\* the caller's key and the key manager: a key of the caller's, or none and
\* a manager that finds a key ("k1"), finds none ("null") or is absent, or a
\* key of the caller's and a manager that would find another
KeyChoices ==
    {[key |-> K1, km |-> "none"], [key |-> K2, km |-> "none"], [key |-> K2, km |-> "k1"],
     [key |-> NoKey, km |-> "k1"], [key |-> NoKey, km |-> "null"],
     [key |-> NoKey, km |-> "none"]}

\* whether the first element child of the node is an EncryptionMethod
HasMethod(enc) ==
    LET c == xmlSecGetNextElementNode(enc.kids, 1)
    IN c # 0 /\ xmlSecCheckNodeName(enc.kids[c], "EncryptionMethod", xmlSecEncNs)

\* the default method of the Ctx is only read when there is no
\* EncryptionMethod
DefMethods(enc) == IF HasMethod(enc) THEN {NULL} ELSE {NULL, Aes}

Input(op, kc, slot, ignoreType, defMethod, fault, buf, uriData, src, loc, ubCrash) ==
    [op |-> op, key |-> kc.key, km |-> kc.km, slot |-> slot, ignoreType |-> ignoreType,
     defMethod |-> defMethod, fault |-> fault, buf |-> buf, uriData |-> uriData,
     src |-> src, loc |-> loc, ubCrash |-> ubCrash]

TmplLoc == [d |-> "tmpl", path |-> <<1>>]

\* the documents after the call: the EncryptedData node the call worked on
\* is where the call left it
Committed(m) ==
    [tmpl |-> IF m.encLoc.d = "tmpl" THEN ReplaceAt(m.tmplD, m.encLoc.path, <<m.enc>>)
              ELSE m.tmplD,
     doc |-> IF m.encLoc.d = "doc" THEN ReplaceAt(m.docD, m.encLoc.path, <<m.enc>>)
             ELSE m.docD]

\* what the caller sees: a call that freed memory twice returns or crashes
StatusOf(m) ==
    IF m.crash \/ (m.ub /\ m.in.ubCrash) THEN "crash"
    ELSE IF m.ret = 0 THEN "ok" ELSE "fail"

Outcome(m) ==
    [op |-> m.in.op, in |-> m.in, encPre |-> m.encPre,
     pre |-> [tmpl |-> m.tmplPre, doc |-> doc, ids |-> ids, kmctx |-> kmctx],
     status |-> StatusOf(m), errs |-> m.errs, log |-> m.log, al |-> m.al, rl |-> m.rl,
     tr |-> m.tr, res |-> m.res, handed |-> m.handed, ub |-> m.ub,
     kmAtCall |-> m.kmAtCall, enc |-> m.enc, encLoc |-> m.encLoc]

\* the call ran: the fault, if any, was met, and only a call that freed
\* memory twice may crash for it
Ran(m) ==
    /\ m.in.fault = "none" \/ m.hit
    /\ m.in.ubCrash => m.ub
    /\ tmpl' = Committed(m).tmpl
    /\ doc' = Committed(m).doc
    /\ ids' = m.ids
    /\ kmctx' = m.kmctx
    /\ nops' = nops + 1
    /\ last' = Outcome(m)

Start(in) ==
    Machine(in, IF in.loc.d = "tmpl" THEN tmpl[1] ELSE GetAt(doc, in.loc.path),
            tmpl, doc, ids, kmctx)

\* the EncryptedData nodes of the document
EncPaths(items) ==
    {q \in PathsIn(items, 2) : GetAt(items, q).name = "EncryptedData"}

Init ==
    /\ \E t \in Templates : tmpl = <<t>>
    /\ doc \in Docs
    /\ ids = {}
    /\ kmctx = NoKmCtx
    /\ nops = 0
    /\ last = [op |-> "Init"]
    /\ hist = NoHist

EncryptMemory ==
    /\ last.op = "Init"
    /\ doc = Doc1
    /\ \E kc \in KeyChoices \ {[key |-> K2, km |-> "none"]}, slot \in BOOLEAN,
          dm \in DefMethods(tmpl[1]), f \in Faults, buf \in PlainTexts, c \in BOOLEAN :
          Ran(xmlSecEncryptMemory(Start(
              Input("EncryptMemory", kc, slot, FALSE, dm, f, buf, <<>>, <<>>, TmplLoc, c))))
    /\ UNCHANGED hist

EncryptUri ==
    /\ last.op = "Init"
    /\ doc = Doc1
    /\ \E kc \in {[key |-> K1, km |-> "none"], [key |-> NoKey, km |-> "k1"]},
          slot \in BOOLEAN, dm \in DefMethods(tmpl[1]), f \in Faults,
          data \in {PlainText, PlainElem}, c \in BOOLEAN :
          Ran(xmlSecEncryptUri(Start(
              Input("EncryptUri", kc, slot, FALSE, dm, f, <<>>, data, <<>>, TmplLoc, c))))
    /\ UNCHANGED hist

EncryptXmlNode ==
    /\ last.op = "Init"
    /\ doc = Doc1
    /\ \E kc \in {[key |-> K1, km |-> "none"], [key |-> NoKey, km |-> "k1"]},
          slot \in BOOLEAN, ig \in BOOLEAN, dm \in DefMethods(tmpl[1]), f \in Faults,
          src \in {<<1>>, <<1, 1>>}, c \in BOOLEAN :
          Ran(xmlSecEncryptXmlNode(Start(
              Input("EncryptXmlNode", kc, slot, ig, dm, f, <<>>, <<>>, src, TmplLoc, c))))
    /\ UNCHANGED hist

Decrypt ==
    /\ last.op = "Init"
    /\ \E kc \in KeyChoices, slot \in BOOLEAN, ig \in BOOLEAN, dm \in DefMethods(tmpl[1]),
          f \in Faults, c \in BOOLEAN,
          data \in {RawCipherOf(K1.value, PlainElem), CipherTextOf(K1.value, PlainElem)},
          loc \in {TmplLoc} \cup {[d |-> "doc", path |-> q] : q \in EncPaths(doc)} :
          /\ (doc # Doc1) = (loc.d = "doc")
          /\ (loc.d = "doc") => (tmpl = <<TMethod(xmlSecEncTypeElement)>>)
          /\ Ran(xmlSecDecrypt(Start(
                Input("Decrypt", kc, slot, ig, dm, f, <<>>, data, <<>>, loc, c))))
    /\ UNCHANGED hist

Next ==
    \/ EncryptMemory
    \/ EncryptUri
    \/ EncryptXmlNode
    \/ Decrypt

Spec == Init /\ [][Next]_vars

OpNames == {"EncryptMemory", "EncryptUri", "EncryptXmlNode", "Decrypt"}

IsOp == last.op \in OpNames


----------------------------------------------------------------------------
(* Round trips: encryptions, nested up to a bound, and then decryptions of *)
(* what they made, with no failing library call.  hist.stack keeps one     *)
(* entry per encryption that is not yet decrypted.                         *)

MaxNest == 2

RoundTemplates ==
    {TMethod(t) : t \in TypeValues}
        \cup {TKeyInfo(xmlSecEncTypeContent), TReference(xmlSecEncTypeElement),
              TReference(NULL)}

\* the templates of the nested encryptions
FreshTemplates == {TMethod(xmlSecEncTypeContent), TMethod(xmlSecEncTypeElement)}

RoundKeys == {[key |-> K1, km |-> "none"], [key |-> NoKey, km |-> "k1"]}

InitRound ==
    /\ \E t \in RoundTemplates : tmpl = <<t>>
    /\ doc = Doc1
    /\ ids = {}
    /\ kmctx = NoKmCtx
    /\ nops = 0
    /\ last = [op |-> "Init"]
    /\ hist = NoHist

\* the octets an encrypt_xml_node call dumped
DumpOf(m) == SelectSeq(m.log, LAMBDA e : e[1] = "Dump")[1][2]

HasReference(enc) ==
    LET cd == xmlSecFindChild(enc, "CipherData", xmlSecEncNs)
    IN cd # 0 /\ xmlSecFindChild(enc.kids[cd], "CipherReference", xmlSecEncNs) # 0

\* the entry of a successful encryption of the octets plain
Entry(m, plain) ==
    [plain |-> plain, doc |-> doc,
     orig |-> IF hist.stack = <<>> THEN doc ELSE hist.stack[Len(hist.stack)].orig,
     loc |-> m.encLoc,
     pure |-> /\ m.in.op = "EncryptXmlNode"
              /\ m.res.type = xmlSecEncTypeContent
              /\ m.encLoc.d = "doc"
              /\ (hist.stack = <<>> \/ hist.stack[Len(hist.stack)].pure),
     ref |-> HasReference(m.enc),
     depth |-> Len(hist.stack) + 1]

Encrypted(m, plain) ==
    /\ Ran(m)
    /\ hist' = IF StatusOf(m) = "ok"
               THEN [hist EXCEPT !.stack = Append(@, Entry(m, plain))]
               ELSE hist

EncryptedNode(m) == Encrypted(m, IF m.ret = 0 THEN DumpOf(m) ELSE <<>>)

\* a decryption that splices takes the entry of its encryption off the
\* stack; any other ends the round
Decrypted(m) ==
    /\ Ran(m)
    /\ hist' = [stack |-> IF StatusOf(m) = "ok" /\ m.encLoc.d = "gone"
                          THEN SubSeq(hist.stack, 1, Len(hist.stack) - 1)
                          ELSE <<>>,
                expect |-> hist.stack[Len(hist.stack)],
                open |-> StatusOf(m) = "ok" /\ m.encLoc.d = "gone"]

REncryptMemory ==
    /\ last.op = "Init"
    /\ \E kc \in RoundKeys, buf \in PlainTexts :
          Encrypted(xmlSecEncryptMemory(Start(
              Input("EncryptMemory", kc, TRUE, FALSE, NULL, "none", buf, <<>>, <<>>,
                    TmplLoc, FALSE))), buf)

REncryptUri ==
    /\ last.op = "Init"
    /\ \E data \in {PlainText, PlainElem} :
          Encrypted(xmlSecEncryptUri(Start(
              Input("EncryptUri", [key |-> K1, km |-> "none"], TRUE, FALSE, NULL, "none",
                    <<>>, data, <<>>, TmplLoc, FALSE))), data)

\* the first encryption uses the template of the start; a nested one brings
\* a template of its own
REncryptXmlNode ==
    /\ hist.expect = NoExpect
    /\ Len(hist.stack) < MaxNest
    /\ \/ last.op = "Init"
       \/ hist.stack # <<>> /\ tmpl = <<>>
    /\ \E t \in (IF tmpl = <<>> THEN FreshTemplates ELSE {tmpl[1]}),
          slot \in BOOLEAN, ig \in BOOLEAN, src \in {<<1>>, <<1, 1>>} :
          /\ hist.stack # <<>> => src = <<1, 1>>
          /\ EncryptedNode(xmlSecEncryptXmlNode(Machine(
                Input("EncryptXmlNode", [key |-> K1, km |-> "none"], slot, ig, NULL,
                      "none", <<>>, <<>>, src, TmplLoc, FALSE), t, <<t>>, doc, ids, kmctx)))

\* the octets found at the URI of a CipherReference: no encrypt operation
\* writes them, so they are the ciphertext of the entry or any other octets
UriOctets(e) ==
    IF e.ref THEN {RawCipherOf(K1.value, e.plain), RawCipherOf(K1.value, <<Chr("z")>>)}
    ELSE {<<>>}

\* the decryption of the node the last encryption left
RDecrypt ==
    /\ hist.stack # <<>>
    /\ \E kc \in RoundKeys \cup {[key |-> K2, km |-> "none"]}, slot \in BOOLEAN,
          ig \in BOOLEAN, data \in UriOctets(hist.stack[Len(hist.stack)]) :
          Decrypted(xmlSecDecrypt(Start(
              Input("Decrypt", kc, slot, ig, NULL, "none", <<>>, data, <<>>,
                    hist.stack[Len(hist.stack)].loc, FALSE))))

NextRound ==
    \/ REncryptMemory
    \/ REncryptUri
    \/ REncryptXmlNode
    \/ RDecrypt

SpecRound == InitRound /\ [][NextRound]_vars


----------------------------------------------------------------------------
(* Claims about one operation *)

EncryptOps == {"EncryptMemory", "EncryptUri", "EncryptXmlNode"}

TypeOf(enc) == xmlGetProp(enc, "Type")

\* the counts of the Result, the key and the buffer do not balance when the
\* caller has taken the Result
Kept == IF last.handed THEN {"Result", "key", "buffer"} ELSE {}

\* C2: on every exit path of an operation every resource that was allocated
\* and not handed to the caller is released exactly once: the Session, the
\* Result, the key duplicate, the buffers and every transform of the chain.
C2_ReleasedExactlyOnce ==
    (IsOp /\ last.status # "crash")
       => /\ \A r \in Resources \ Kept : last.rl[r] = last.al[r]
          /\ \A i \in 1..Len(last.tr) : last.tr[i].freed = 1

\* the template has no EncryptionMethod child and the Ctx has no default
NoMethodCall ==
    /\ IsOp
    /\ last.op \in EncryptOps
    /\ xmlSecFindChild(last.encPre, "EncryptionMethod", xmlSecEncNs) = 0
    /\ last.in.defMethod = NULL

\* C3: when the template has no EncryptionMethod child and the Ctx has no
\* default method, an encrypt operation never succeeds, hands over no Result
\* and leaves the template's subtree as it was; the error it reports is
\* INVALID_DATA (when no allocation fails before the template is read).
C3_NoMethodInvalidData ==
    NoMethodCall
       => /\ last.status # "ok"
          /\ ~last.handed
          /\ tmpl = last.pre.tmpl
          /\ last.in.fault = "none" => (last.status = "fail" /\ last.errs[1] = "INVALID_DATA")

C3_Witness ==
    /\ NoMethodCall
    /\ last.op = "EncryptMemory"
    /\ last.in.fault = "none"
    /\ last.status = "fail"
    /\ last.errs[1] = "INVALID_DATA"
    /\ tmpl = <<TBase(xmlSecEncTypeElement)>>

\* a successful encrypt_xml_node on a template of the Type
NodeEncrypted(type) ==
    /\ IsOp
    /\ last.op = "EncryptXmlNode"
    /\ last.status = "ok"
    /\ TypeOf(last.encPre) = type

\* the source node is no longer in the document and the EncryptedData node
\* is where it was, with the attributes the template had
ElementReplaced ==
    /\ IsElem(GetAt(doc, last.in.src))
    /\ GetAt(doc, last.in.src).name = "EncryptedData"
    /\ doc = ReplaceAt(last.pre.doc, last.in.src, <<GetAt(doc, last.in.src)>>)
    /\ \A q \in PathsIn(doc, 4) : GetAt(doc, q) # GetAt(last.pre.doc, last.in.src)
    /\ \A a \in {"Id", "Type", "MimeType", "Encoding"} :
          xmlGetProp(GetAt(doc, last.in.src), a) = xmlGetProp(last.encPre, a)
    /\ last.handed => last.res.replaced = 1

\* C7 as stated: after a successful encrypt_xml_node on a template of Type
\* #Element the EncryptedData node has taken the place of the source node,
\* with its attributes, and the Result says replaced.
C7_Original == NodeEncrypted(xmlSecEncTypeElement) => ElementReplaced

\* C7: the same, when the Ctx does not ignore the Type.
C7_ElementReplaced ==
    (NodeEncrypted(xmlSecEncTypeElement) /\ ~last.in.ignoreType) => ElementReplaced

C7_Witness ==
    /\ NodeEncrypted(xmlSecEncTypeElement)
    /\ ~last.in.ignoreType
    /\ last.in.src = <<1, 1>>
    /\ last.handed
    /\ ElementReplaced

\* the source element is in its place with its name and attributes, and the
\* EncryptedData node is its only child
ContentReplaced ==
    /\ GetAt(doc, last.in.src).name = GetAt(last.pre.doc, last.in.src).name
    /\ GetAt(doc, last.in.src).ns = GetAt(last.pre.doc, last.in.src).ns
    /\ GetAt(doc, last.in.src).attrs = GetAt(last.pre.doc, last.in.src).attrs
    /\ Len(GetAt(doc, last.in.src).kids) = 1
    /\ GetAt(doc, last.in.src).kids[1].name = "EncryptedData"
    /\ doc = ReplaceAt(last.pre.doc, last.in.src, <<GetAt(doc, last.in.src)>>)

\* C8 as stated: after a successful encrypt_xml_node on a template of Type
\* #Content the former children of the source node are gone, the
\* EncryptedData node is in their place and the source element keeps its
\* name and attributes.
C8_Original == NodeEncrypted(xmlSecEncTypeContent) => ContentReplaced

\* C8: the same, when the Ctx does not ignore the Type.
C8_ContentReplaced ==
    (NodeEncrypted(xmlSecEncTypeContent) /\ ~last.in.ignoreType) => ContentReplaced

C8_Witness ==
    /\ NodeEncrypted(xmlSecEncTypeContent)
    /\ ~last.in.ignoreType
    /\ last.in.src = <<1, 1>>
    /\ Len(GetAt(last.pre.doc, last.in.src).kids) = 2
    /\ ContentReplaced

\* C10: an operation that returns a failure hands no Result to the caller
\* and has destroyed the Result it allocated; a Result is handed over only by
\* an operation that succeeds and was given a slot for it.
C10_ResultOnlyOnSuccess ==
    IsOp => /\ last.status = "fail"
               => (~last.handed /\ (last.al["Result"] = 1 => last.rl["Result"] >= 1))
            /\ last.handed => (last.status = "ok" /\ last.in.slot)

C10_Witness ==
    /\ IsOp
    /\ last.status = "fail"
    /\ last.in.slot
    /\ last.al["Result"] = 1
    /\ last.rl["Result"] = 1
    /\ ~last.handed

----------------------------------------------------------------------------
(* Claims about round trips *)

\* the decryption of what an encryption made, with the key of the encryption
RoundDecrypt ==
    /\ last.op = "Decrypt"
    /\ hist.expect # NoExpect
    /\ last.in.key # K2
    /\ TypeOf(last.encPre) \in {xmlSecEncTypeElement, xmlSecEncTypeContent, NULL}

RoundTrip ==
    /\ last.status = "ok"
    /\ last.handed => last.res.buffer.data = hist.expect.plain

\* C1 as stated: encrypt on a template and then decrypt on the node it made,
\* with the matching key, succeeds and gives a Result whose buffer is the
\* plaintext, for every template, every plaintext and every Type among
\* #Element, #Content and unset.
C1_Original == RoundDecrypt => RoundTrip

\* C1: the same for a template whose CipherData holds no CipherReference,
\* and, when the decryption splices (the Type is set and not ignored), for a
\* plaintext that parses as XML content.
C1_RoundTrip ==
    (/\ RoundDecrypt
     /\ ~hist.expect.ref
     /\ Splices(last.in.ignoreType, TypeOf(last.encPre)) => xmlParse(hist.expect.plain).ok)
       => RoundTrip

C1_Witness ==
    /\ RoundDecrypt
    /\ ~hist.expect.ref
    /\ hist.expect.plain = PlainElem
    /\ hist.expect.loc.d = "tmpl"
    /\ TypeOf(last.encPre) = xmlSecEncTypeElement
    /\ ~last.in.ignoreType
    /\ last.handed
    /\ last.res.buffer.data = PlainElem

\* every encrypt_xml_node and decrypt of Type #Content says replaced
ContentSaysReplaced ==
    (/\ last.op \in {"EncryptXmlNode", "Decrypt"}
     /\ last.status = "ok"
     /\ TypeOf(last.encPre) = xmlSecEncTypeContent
     /\ last.handed)
       => last.res.replaced = 1

\* C9 as stated: N encrypt_xml_node calls of Type #Content over the content
\* of one element and then N decrypt calls give back the original tree, and
\* the Result of every one of these calls says replaced.
C9_Original ==
    /\ ContentSaysReplaced
    /\ (last.op = "Decrypt" /\ last.status = "ok" /\ hist.expect.pure /\ hist.expect.depth = 1)
          => doc = hist.expect.orig

\* C9: the same, when the Ctx does not ignore the Type in any of the calls;
\* every decrypt call with the key of the encryption then succeeds.
C9_NestedContentRestored ==
    /\ (last.op \in {"EncryptXmlNode", "Decrypt"} /\ ~last.in.ignoreType)
          => ContentSaysReplaced
    /\ (last.op = "Decrypt" /\ last.in.key # K2 /\ ~last.in.ignoreType /\ hist.expect.pure)
          => /\ last.status = "ok"
             /\ hist.expect.depth = 1 => doc = hist.expect.orig

C9_Witness ==
    /\ last.op = "Decrypt"
    /\ last.status = "ok"
    /\ ~last.in.ignoreType
    /\ hist.expect.pure
    /\ hist.expect.depth = 1
    /\ nops = 4
    /\ last.handed
    /\ last.res.replaced = 1
    /\ doc = hist.expect.orig

----------------------------------------------------------------------------
(* Claims about the key *)

\* the entries of the log of the last call that are calls of the key manager
KmCalls == SelectSeq(last.log, LAMBDA e : e[1] = "GetKey")

KmCalled == IsOp /\ KmCalls # <<>>

\* the method of the call: the Algorithm of the EncryptionMethod that comes
\* first, or the default of the Ctx
MethodOfCall ==
    IF HasMethod(last.encPre)
    THEN xmlGetProp(last.encPre.kids[xmlSecGetNextElementNode(last.encPre.kids, 1)], "Algorithm")
    ELSE last.in.defMethod

\* the hints the claim names for the direction of the call
HintsOfCall ==
    IF last.op \in EncryptOps
    THEN [keyType |-> EncKeyType(MethodOfCall), keyUsage |-> "encrypt",
          keyId |-> KeyIdOf(MethodOfCall)]
    ELSE [keyType |-> DecKeyType(MethodOfCall), keyUsage |-> "decrypt",
          keyId |-> KeyIdOf(MethodOfCall)]

\* the callback got the KeyInfo child of the template, or null when the
\* template has none
GotKeyInfoOfTemplate ==
    KmCalls[1][2] = xmlSecFindChild(last.encPre, "KeyInfo", xmlSecDSigNs)

\* the KeyInfo child, if there is one, is the element that follows the
\* EncryptionMethod, or the first element when there is no EncryptionMethod
KeyInfoInPlace(enc) ==
    LET names == ElemNames(enc)
    IN \A i \in 1..Len(names) :
          names[i] = "KeyInfo" => (i = 1 \/ (i = 2 /\ names[1] = "EncryptionMethod"))

\* C11 as stated: whenever the key manager is called, the KeyManagerContext
\* holds the key type and usage of the direction and the key id of the
\* method, and the callback gets the KeyInfo node of the template, or null
\* when the template has none.
C11_Original ==
    KmCalled => (Len(KmCalls) = 1 /\ last.kmAtCall = HintsOfCall /\ GotKeyInfoOfTemplate)

\* C11: the same, where the callback gets the KeyInfo node when the KeyInfo
\* stands in its place, right after the EncryptionMethod; a KeyInfo that
\* stands elsewhere is not looked for and the callback gets null.
C11_KeyManagerHints ==
    KmCalled => /\ Len(KmCalls) = 1
                /\ last.kmAtCall = HintsOfCall
                /\ KeyInfoInPlace(last.encPre) => GotKeyInfoOfTemplate
                /\ ~KeyInfoInPlace(last.encPre) => KmCalls[1][2] = 0

C11_Witness ==
    /\ KmCalled
    /\ last.op = "Decrypt"
    /\ last.status = "ok"
    /\ last.kmAtCall = [keyType |-> "private", keyUsage |-> "decrypt", keyId |-> "aes-key"]
    /\ KmCalls[1][2] # 0
    /\ GotKeyInfoOfTemplate


\* the caller gives no key and the key manager gives none: its callback
\* returns null or there is no callback
NoKeyCall ==
    /\ IsOp
    /\ last.in.key = NoKey
    /\ last.in.km \in {"null", "none"}

\* C12: when the caller gives no key and the key manager gives none, the
\* operation never succeeds, hands over no Result and leaves the template and
\* the document as they were; when the driver gets as far as the key (the
\* method is known and no library call fails) the error is KEY_NOT_FOUND.
C12_KeyNotFound ==
    NoKeyCall
       => /\ last.status = "fail"
          /\ ~last.handed
          /\ tmpl = last.pre.tmpl
          /\ doc = last.pre.doc
          /\ (last.in.fault = "none" /\ MethodOfCall = Aes) => last.errs[1] = "KEY_NOT_FOUND"

C12_Witness ==
    /\ NoKeyCall
    /\ last.in.km = "null"
    /\ KmCalled
    /\ last.op = "EncryptMemory"
    /\ last.status = "fail"
    /\ last.errs[1] = "KEY_NOT_FOUND"
    /\ xmlSecFindChild(last.encPre, "KeyInfo", xmlSecDSigNs) # 0
    /\ tmpl = last.pre.tmpl


\* the caller gives a key
KeyGiven == IsOp /\ last.in.key # NoKey

\* the transforms of the last call that were given a key
Keyed == {i \in 1..Len(last.tr) : last.tr[i].key # NULL}

\* C13: when the caller gives a key the key manager is not called and the
\* hints of the KeyManagerContext stay as they were; the cipher transform
\* gets the value of the caller's key, and the key the Result owns is a copy
\* of the caller's key with the origin tag of the caller's key.
C13_CallerKeyUsed ==
    KeyGiven
       => /\ KmCalls = <<>>
          /\ kmctx = last.pre.kmctx
          /\ \A i \in Keyed : last.tr[i].kind = "cipher" /\ last.tr[i].key = last.in.key.value
          /\ (\E j \in 1..Len(last.log) : last.log[j][1] = "AddKey") => Keyed # {}
          /\ last.handed => (last.res.key = last.in.key /\ last.al["key"] = 1)

C13_Witness ==
    /\ KeyGiven
    /\ last.in.km = "k1"
    /\ last.status = "ok"
    /\ last.handed
    /\ last.res.key.origin = "dynamic"
    /\ \E i \in Keyed : last.tr[i].key = "v2"


----------------------------------------------------------------------------
(* Claims about the order of the steps *)

\* the steps that build the Session or work on a transform of the chain
ChainSteps ==
    {"StateCreate", "Create", "Add", "AddFirst", "SetEncrypt", "AddKey", "Write", "Flush",
     "Read"}

\* the positions in the log of the last call of the steps of the set
StepsAt(S) == {j \in 1..Len(last.log) : last.log[j][1] \in S}

\* C14: in every operation the Id attributes of the EncryptedData subtree are
\* registered as IDs of the document before the Session is built and before
\* any transform is created, added, written, read or flushed; once the Result
\* is allocated they are registered, whether or not the operation fails
\* later.
C14_IdsBeforeChain ==
    IsOp => /\ \A j \in StepsAt(ChainSteps) : \E i \in StepsAt({"AddIDs"}) : i < j
            /\ (last.al["Result"] = 1 /\ last.status # "crash")
                  => (StepsAt({"AddIDs"}) # {} /\ IdsOf(last.encPre) \subseteq ids)

C14_Witness ==
    /\ IsOp
    /\ last.op = "Decrypt"
    /\ last.status = "fail"
    /\ last.errs[1] = "KEY_NOT_FOUND"
    /\ last.pre.ids = {}
    /\ StepsAt(ChainSteps) # {}
    /\ "e1" \in ids


----------------------------------------------------------------------------
(* Claims about the Type *)

\* a successful encrypt_xml_node or decrypt
NodeOpDone ==
    /\ IsOp
    /\ last.op \in {"EncryptXmlNode", "Decrypt"}
    /\ last.status = "ok"

\* the text of the CipherValue of the node
CipherValueText(enc) ==
    LET cd == CipherDataOf(enc)
    IN xmlNodeGetContent(cd.kids[xmlSecFindChild(cd, "CipherValue", xmlSecEncNs)])

\* the call is one that succeeds when the Type is left out: a template or an
\* encrypted node that is complete, a key that fits and no failing library
\* call
GoodCall ==
    /\ IsOp
    /\ last.in.fault = "none"
    /\ \/ /\ last.op = "EncryptXmlNode"
          /\ last.in.key # NoKey
          /\ \E t \in TypeValues : last.encPre = TMethod(t)
       \/ /\ last.op = "Decrypt"
          /\ last.in.key = K1
          /\ \E t \in TypeValues : last.encPre = TValue(t, PlainElem)

\* no splice was made: the documents are as they were but for what the
\* driver writes into the EncryptedData node, which is where it was, and the
\* Result does not say replaced
NotSpliced ==
    /\ last.encLoc = last.in.loc
    /\ doc = (IF last.in.loc.d = "doc"
              THEN ReplaceAt(last.pre.doc, last.in.loc.path, <<last.enc>>)
              ELSE last.pre.doc)
    /\ tmpl = (IF last.in.loc.d = "tmpl" THEN <<last.enc>> ELSE last.pre.tmpl)
    /\ last.op = "Decrypt" => last.enc = last.encPre
    /\ last.handed => (last.res.replaced = 0 /\ last.res.buffer.has)

\* C15: when the Ctx ignores the Type, encrypt_xml_node and decrypt make no
\* splice whatever the Type attribute is: source node and EncryptedData node
\* stay where they are and the Result does not say replaced; the call
\* succeeds as it does without a Type, the output is in the buffer of the
\* Result and, on encrypt, it is the text of the CipherValue.
C15_IgnoreTypeNoSplice ==
    /\ (NodeOpDone /\ last.in.ignoreType)
          => /\ NotSpliced
             /\ (last.op = "EncryptXmlNode" /\ last.handed /\ ~HasReference(last.enc))
                   => CipherValueText(last.enc) = <<NL>> \o last.res.buffer.data \o <<NL>>
    /\ (GoodCall /\ last.in.ignoreType) => last.status = "ok"

C15_Witness ==
    /\ NodeOpDone
    /\ last.in.ignoreType
    /\ last.op = "EncryptXmlNode"
    /\ TypeOf(last.encPre) = xmlSecEncTypeContent
    /\ last.handed
    /\ NotSpliced
    /\ doc = Doc1
    /\ last.res.buffer.data = CipherTextOf(last.in.key.value, xmlNodeDump(GetAt(Doc1, last.in.src)))


\* a decrypt of a node whose Type is there and is neither #Element nor
\* #Content
DecryptOfOtherType ==
    /\ IsOp
    /\ last.op = "Decrypt"
    /\ TypeOf(last.encPre) \notin {NULL, xmlSecEncTypeElement, xmlSecEncTypeContent}

\* C16: a decrypt of a node whose Type is neither #Element nor #Content
\* succeeds as it does without a Type; the tree is left as it was, the Result
\* does not say replaced, its buffer holds the plaintext and its Type is the
\* value of the attribute.
C16_OtherTypeUntouched ==
    /\ (DecryptOfOtherType /\ last.status = "ok")
          => /\ NotSpliced
             /\ last.handed => last.res.type = TypeOf(last.encPre)
    /\ (DecryptOfOtherType /\ GoodCall)
          => /\ last.status = "ok"
             /\ last.handed => last.res.buffer.data = PlainElem

C16_Witness ==
    /\ DecryptOfOtherType
    /\ GoodCall
    /\ ~last.in.ignoreType
    /\ last.handed
    /\ last.res.type = OtherType
    /\ last.res.buffer.data = PlainElem
    /\ tmpl = last.pre.tmpl


\* an encrypt_xml_node that looks at the Type, on a template whose Type is
\* there and is neither #Element nor #Content
EncryptOfOtherType ==
    /\ IsOp
    /\ last.op = "EncryptXmlNode"
    /\ ~last.in.ignoreType
    /\ TypeOf(last.encPre) \notin {NULL, xmlSecEncTypeElement, xmlSecEncTypeContent}

\* C17: encrypt_xml_node that looks at the Type fails on a Type that is
\* neither #Element nor #Content: the source node is not dumped, nothing is
\* written to or flushed through the chain, CipherData is not written, the
\* document is not spliced and no Result is handed over; when the call gets
\* as far as the Type (complete template, key, no failing library call) the
\* one error it reports is INVALID_TYPE.
C17_InvalidType ==
    EncryptOfOtherType
       => /\ last.status # "ok"
          /\ ~last.handed
          /\ StepsAt({"Dump", "Write", "Flush", "CipherDataWrite", "Replace"}) = {}
          /\ doc = last.pre.doc
          /\ CipherDataOf(tmpl[1]) = CipherDataOf(last.encPre)
          /\ GoodCall => (last.status = "fail" /\ last.errs = <<"INVALID_TYPE">>)

C17_Witness ==
    /\ EncryptOfOtherType
    /\ GoodCall
    /\ last.errs = <<"INVALID_TYPE">>
    /\ last.al["Session"] = 1
    /\ last.rl["Session"] = 1
    /\ tmpl = last.pre.tmpl


----------------------------------------------------------------------------
(* The chain of a Session by itself: transforms of every type are created  *)
(* and given to the two functions that add to the chain, at the tail and   *)
(* at the head.  last.pre is the Session before the call, with the new     *)
(* transform last.t in the heap, and last.m the Session after it.          *)

MaxChain == 3

\* the transforms the library makes: binary ones and an XML one
ChainTransforms ==
    {[kind |-> "cipher", id |-> Aes], [kind |-> "b64enc", id |-> "base64-encode"],
     [kind |-> "b64dec", id |-> "base64-decode"], [kind |-> "membuf", id |-> "membuf"],
     [kind |-> "uri", id |-> "input-uri"], [kind |-> "c14n", id |-> "c14n"]}

ChainInput ==
    Input("Chain", [key |-> NoKey, km |-> "none"], FALSE, FALSE, NULL, "none", <<>>, <<>>,
          <<>>, TmplLoc, FALSE)

InitChain ==
    /\ tmpl = <<>>
    /\ doc = <<>>
    /\ ids = {}
    /\ kmctx = NoKmCtx
    /\ nops = 0
    /\ hist = NoHist
    /\ last = [op |-> "Init", t |-> 0,
               m |-> Machine(ChainInput, TBase(NULL), <<>>, <<>>, {}, NoKmCtx),
               pre |-> Machine(ChainInput, TBase(NULL), <<>>, <<>>, {}, NoKmCtx)]

\* the Session with a new transform in the heap, not yet in the chain
WithNew(k) == [CreateTransform(last.m, k.kind, k.id, "Create") EXCEPT !.ret = 0]

\* the Session is being built: no transform has been moved and the Session
\* is not destroyed
Building == last.op \in {"Init", "AddTransform", "AddFirstTransform"}

ChainAddTail ==
    /\ Building
    /\ Len(last.m.tr) < MaxChain
    /\ \E k \in ChainTransforms :
          last' = [op |-> "AddTransform", t |-> WithNew(k).new, pre |-> WithNew(k),
                   m |-> xmlSecEncStateAddTransform(WithNew(k), WithNew(k).new)]
    /\ nops' = nops + 1
    /\ UNCHANGED <<tmpl, doc, ids, kmctx, hist>>

ChainAddHead ==
    /\ Building
    /\ Len(last.m.tr) < MaxChain
    /\ \E k \in ChainTransforms :
          last' = [op |-> "AddFirstTransform", t |-> WithNew(k).new, pre |-> WithNew(k),
                   m |-> xmlSecEncStateAddFirstTransform(WithNew(k), WithNew(k).new)]
    /\ nops' = nops + 1
    /\ UNCHANGED <<tmpl, doc, ids, kmctx, hist>>

\* one round of the loop of the CipherReference reader: the pipeline takes
\* the first transform of the chain or refuses it
ChainMove ==
    /\ Building \/ (last.op = "Move" /\ last.m.ret = 0)
    /\ last.m.first # 0
    /\ \E fails \in BOOLEAN :
          last' = [op |-> "Move", t |-> last.m.first,
                   pre |-> [last.m EXCEPT !.ret = 0],
                   m |-> MoveStep([last.m EXCEPT !.ret = 0], fails)]
    /\ nops' = nops + 1
    /\ UNCHANGED <<tmpl, doc, ids, kmctx, hist>>

\* the end of the loop: state->last = NULL
ChainMoveEnd ==
    /\ last.op = "Move"
    /\ last.m.ret = 0
    /\ last.m.first = 0
    /\ last' = [op |-> "MoveEnd", t |-> 0, pre |-> last.m, m |-> [last.m EXCEPT !.last = 0]]
    /\ nops' = nops + 1
    /\ UNCHANGED <<tmpl, doc, ids, kmctx, hist>>

\* the pipeline is destroyed with the transforms it took, and then the
\* Session with what is left of its chain
ChainDestroy ==
    /\ last.op # "Destroy"
    /\ last.op = "Move" => (last.m.ret < 0)
    /\ last' = [op |-> "Destroy", t |-> 0, pre |-> last.m,
                m |-> xmlSecEncStateDestroy(
                          IF last.op \in {"Move", "MoveEnd"} THEN TransformStateDestroy(last.m)
                          ELSE last.m)]
    /\ nops' = nops + 1
    /\ UNCHANGED <<tmpl, doc, ids, kmctx, hist>>

NextChain ==
    \/ ChainAddTail
    \/ ChainAddHead
    \/ ChainMove
    \/ ChainMoveEnd
    \/ ChainDestroy

SpecChain == InitChain /\ [][NextChain]_vars

\* a call that adds a transform that is not binary
AddOfNonBinary ==
    /\ last.op \in {"AddTransform", "AddFirstTransform"}
    /\ ~last.pre.tr[last.t].binary

\* C18: adding a transform that is not binary to the chain of the Session, at
\* the tail or at the head, fails with INVALID_TRANSFORM and leaves the head,
\* the tail and every link of the chain as they were.
C18_NonBinaryRejected ==
    AddOfNonBinary
       => /\ last.m.ret = -1
          /\ last.m.errs = Append(last.pre.errs, "INVALID_TRANSFORM")
          /\ last.m.first = last.pre.first
          /\ last.m.last = last.pre.last
          /\ last.m.tr = last.pre.tr

C18_Witness ==
    /\ AddOfNonBinary
    /\ last.op = "AddFirstTransform"
    /\ Len(ChainFrom(last.pre.tr, last.pre.first, MaxChain)) = 2
    /\ last.m.ret = -1
    /\ ChainFrom(last.m.tr, last.m.first, MaxChain) = <<2, 1>>


----------------------------------------------------------------------------
(* The template builders on a node that is not an EncryptedData element:   *)
(* the same calls as above, from an element of another name, with or       *)
(* without a CipherData child, or of the name in another namespace.        *)

ForeignNodes ==
    {Elem("Other", NULL, NoAttrs, <<>>),
     Elem("Other", NULL, NoAttrs, <<Elem("CipherData", xmlSecEncNs, NoAttrs, <<>>)>>),
     Elem("EncryptedKey", xmlSecEncNs, NoAttrs,
          <<Elem("CipherData", xmlSecEncNs, NoAttrs, <<>>)>>)}

InitForeign ==
    /\ \E n \in ForeignNodes : tmpl = <<n>>
    /\ doc = <<>>
    /\ ids = {}
    /\ kmctx = NoKmCtx
    /\ nops = 0
    /\ last = [op |-> "Create"]
    /\ hist = NoHist

SpecForeign == InitForeign /\ [][NextBuild]_vars

\* C19: a builder call on an element that is not an EncryptedData element
\* fails and leaves the tree as it was.
C19_ForeignNodeRejected ==
    (IsBuild /\ last.pre.name # "EncryptedData") => (~last.ok /\ tmpl[1] = last.pre)


----------------------------------------------------------------------------
(* Claims about the namespaces of the nodes the builders make *)

EncNames ==
    {"EncryptedData", "EncryptionMethod", "CipherData", "CipherValue",
     "CipherReference", "EncryptionProperties", "EncryptionProperty"}

DSigNames == {"KeyInfo", "Transform"}

RECURSIVE ElementsOf(_)
\* the element and every element below it
ElementsOf(e) ==
    {e} \cup UNION {ElementsOf(e.kids[j]) : j \in {k \in 1..Len(e.kids) : IsElem(e.kids[k])}}

\* the namespace an element is in: the one it declares as its default, or
\* the one it was made with
NsCarried(e) == OpenTag(e).ns

NamesMade == {e.name : e \in ElementsOf(tmpl[1])}

----------------------------------------------------------------------------
(* Claims about a transform that fails *)

\* an encrypt operation in which the write, the flush or the read on the
\* chain reported an error
TransformFailed ==
    /\ IsOp
    /\ last.op \in EncryptOps
    /\ last.in.fault \in {"Write", "Flush", "Read"}
    /\ last.status = "fail"

\* C21: when a transform of the chain reports an error during an encrypt
\* operation, the operation fails, the Session is destroyed and the tree is
\* as it was before the call, CipherData, KeyInfo and the source node
\* included.
C21_NoPartialOutput ==
    TransformFailed
       => /\ last.rl["Session"] = 1
          /\ ~last.handed
          /\ tmpl = last.pre.tmpl
          /\ doc = last.pre.doc

----------------------------------------------------------------------------
(* Claims about the children of CipherData *)

\* the element children of the CipherData child of the node
CipherElems(enc) == SelectSeq(CipherDataOf(enc).kids, IsElem)

\* the CipherData of the node has exactly one element child, a CipherValue
\* or a CipherReference
OneCipherChild(enc) ==
    /\ xmlSecFindChild(enc, "CipherData", xmlSecEncNs) # 0
    /\ Len(CipherElems(enc)) = 1
    /\ \/ xmlSecCheckNodeName(CipherElems(enc)[1], "CipherValue", xmlSecEncNs)
       \/ xmlSecCheckNodeName(CipherElems(enc)[1], "CipherReference", xmlSecEncNs)

DecryptOfBadCipherData ==
    /\ IsOp
    /\ last.op = "Decrypt"
    /\ xmlSecFindChild(last.encPre, "CipherData", xmlSecEncNs) # 0
    /\ ~OneCipherChild(last.encPre)

\* C22: decrypt of a node whose CipherData has no element child, a first
\* element child that is neither CipherValue nor CipherReference, or a
\* further element after the first, does not succeed, hands over no Result
\* and does not splice the tree.
C22_OneCipherChild ==
    DecryptOfBadCipherData
       => /\ last.status # "ok"
          /\ ~last.handed
          /\ StepsAt({"Replace"}) = {}
          /\ tmpl = last.pre.tmpl
          /\ doc = last.pre.doc

C22_Witness ==
    /\ DecryptOfBadCipherData
    /\ last.in.fault = "none"
    /\ last.status = "fail"
    /\ Len(CipherElems(last.encPre)) = 2
    /\ StepsAt({"GetBuffer"}) # {}
    /\ "INVALID_NODE" \in {last.errs[i] : i \in 1..Len(last.errs)}

----------------------------------------------------------------------------
(* Claims about the write of the ciphertext *)

EncryptDone ==
    /\ IsOp
    /\ last.op \in EncryptOps
    /\ last.status = "ok"

\* the octets the operation encrypts: the caller's buffer, the octets of the
\* URI, or the dump of the source node
PlainOf ==
    IF last.op = "EncryptMemory" THEN last.in.buf
    ELSE IF last.op = "EncryptUri" THEN last.in.uriData
    ELSE last.log[CHOOSE j \in StepsAt({"Dump"}) : TRUE][2]

\* the base64 ciphertext of the operation, under the key the cipher was given
CipherTextDone ==
    CipherTextOf((CHOOSE t \in {last.tr[i] : i \in 1..Len(last.tr)} : t.kind = "cipher").key,
                 PlainOf)

\* the position of the first element child of CipherData before the call
FirstCipherElem == xmlSecGetNextElementNode(CipherDataOf(last.encPre).kids, 1)

FirstCipherIs(name) ==
    /\ FirstCipherElem # 0
    /\ xmlSecCheckNodeName(CipherDataOf(last.encPre).kids[FirstCipherElem], name, xmlSecEncNs)

\* C23: after a successful encrypt, a CipherData that had no element child
\* has one new CipherValue child whose text is "\n" + ciphertext + "\n"; a
\* CipherData whose first element child was CipherValue has that node's text
\* overwritten with "\n" + ciphertext + "\n" and no node added; a CipherData
\* whose first element child was CipherReference is unchanged, and the
\* ciphertext is in the buffer of the Result.
C23_CipherDataWritten ==
    EncryptDone
       => /\ FirstCipherElem = 0
               => CipherDataOf(last.enc).kids
                    = Append(CipherDataOf(last.encPre).kids,
                             SetCipherText(Elem("CipherValue", xmlSecEncNs, NoAttrs, <<>>),
                                           CipherTextDone))
          /\ FirstCipherIs("CipherValue")
               => CipherDataOf(last.enc)
                    = [CipherDataOf(last.encPre) EXCEPT
                          !.kids[FirstCipherElem] = SetCipherText(@, CipherTextDone)]
          /\ FirstCipherIs("CipherReference")
               => CipherDataOf(last.enc) = CipherDataOf(last.encPre)
          /\ last.handed => last.res.buffer = Buf(CipherTextDone)

C23_Witness ==
    /\ EncryptDone
    /\ FirstCipherIs("CipherValue")
    /\ last.handed
    /\ CipherDataOf(last.enc) # CipherDataOf(last.encPre)
    /\ Len(CipherDataOf(last.enc).kids) = 1
    /\ CipherValueText(last.enc) = <<NL>> \o last.res.buffer.data \o <<NL>>

----------------------------------------------------------------------------
(* Claims about the two ends of the chain *)

\* the Session of the chain machine after the last step, while it is not
\* destroyed
SessionAlive == last.m.rl["Session"] = 0

\* C24: in every state of a Session, from construction through every add at
\* the head, add at the tail and move step, failing steps included, up to
\* destruction, the head is null if and only if the tail is null, the head
\* has no previous and the tail no next transform, and both are transforms
\* that are not destroyed.
C24_HeadAndTail ==
    SessionAlive
       => /\ (last.m.first = 0) <=> (last.m.last = 0)
          /\ last.m.first # 0
                => (last.m.tr[last.m.first].prev = 0 /\ last.m.tr[last.m.first].freed = 0)
          /\ last.m.last # 0
                => (last.m.tr[last.m.last].next = 0 /\ last.m.tr[last.m.last].freed = 0)

----------------------------------------------------------------------------
(* Claims about the move of the chain to the external pipeline *)

\* the transforms that were in the chain of the Session or were taken by the
\* pipeline: those a rejected add left out of the chain are the caller's
ChainMembers ==
    {i \in 1..Len(last.m.tr) :
        \/ \E j \in 1..Len(last.m.log) : last.m.log[j] = <<"Move", i>>
        \/ i \in Linked(last.pre.tr, {last.pre.first, last.pre.last} \ {0}, Len(last.pre.tr))}

\* C25: the transforms of the chain are moved to the external pipeline from
\* the head on, one by one and in the order of the chain, and once the
\* pipeline and the Session are destroyed every transform has been destroyed
\* exactly once, also when the pipeline refused a transform, whatever its
\* position.
C25_MovedAndDestroyedOnce ==
    /\ last.op = "Move" => last.t = last.pre.first
    /\ (last.op = "Move" /\ last.m.ret = 0)
          => last.m.pipeline = Append(last.pre.pipeline, last.pre.first)
    /\ last.op = "Destroy" => \A i \in ChainMembers : last.m.tr[i].freed = 1

----------------------------------------------------------------------------
(* Claims about the chain at the time the octets go through it *)

\* the position in the log of the first write, flush or read on the chain
FirstIO == CHOOSE j \in StepsAt({"Write", "Flush", "Read"}) :
              \A k \in StepsAt({"Write", "Flush", "Read"}) : j <= k

EncryptFed ==
    /\ IsOp
    /\ last.op \in EncryptOps
    /\ StepsAt({"Write", "Flush", "Read"}) # {}

\* the cipher transforms of the operation
Ciphers == {i \in 1..Len(last.tr) : last.tr[i].kind = "cipher"}

\* C26: at the first write, flush or read of an encrypt operation the chain
\* is, from head to tail, the cipher in the encrypt direction, the base64
\* encoder and the memory buffer, with the URI input in front of them for
\* encrypt_uri, and the operation has made no other transform.
C26_EncryptChain ==
    EncryptFed
       => /\ last.log[FirstIO][2]
                = (IF last.op = "EncryptUri" THEN <<"uri">> ELSE <<>>)
                     \o <<"cipher", "b64enc", "membuf">>
          /\ Len(last.tr) = Len(last.log[FirstIO][2])
          /\ \A i \in Ciphers : last.tr[i].encrypt = 1

C26_Witness ==
    /\ EncryptFed
    /\ last.op = "EncryptUri"
    /\ last.status = "ok"
    /\ last.log[FirstIO] = <<"Read", <<"uri", "cipher", "b64enc", "membuf">>>>

\* a decrypt that pushed the text of a CipherValue through the chain
DecryptOfValue ==
    /\ IsOp
    /\ last.op = "Decrypt"
    /\ StepsAt({"Write"}) # {}

\* the adds to the chain, in the order of the log
AddsDone == SelectSeq(last.log, LAMBDA e : e[1] \in {"Add", "AddFirst"})

\* C27: on decrypt of a CipherValue the Session the driver builds holds the
\* cipher alone, in the decrypt direction; when the text of the CipherValue
\* is pushed the chain is, from head to tail, the base64 decoder, the cipher
\* and the memory buffer; after the flush the buffer of the sink is the
\* buffer of the Result and the sink does not own it: it is released with
\* the Result and not with the sink.
C27_DecryptChain ==
    DecryptOfValue
       => /\ AddsDone = <<<<"Add", "cipher">>, <<"AddFirst", "b64dec">>, <<"Add", "membuf">>>>
          /\ \A j \in StepsAt({"CipherData"}), k \in StepsAt({"Add", "AddFirst"}) :
                (k < j) <=> (last.log[k] = <<"Add", "cipher">>)
          /\ last.log[FirstIO] = <<"Write", <<"b64dec", "cipher", "membuf">>>>
          /\ Len(last.tr) = 3
          /\ \A i \in Ciphers : last.tr[i].encrypt = 0
          /\ StepsAt({"GetBuffer"}) # {}
                => /\ last.al["buffer"] = 1
                   /\ last.rl["buffer"] = (IF last.handed THEN 0 ELSE 1)
                   /\ last.handed => last.res.buffer.has

C27_Witness ==
    /\ DecryptOfValue
    /\ last.status = "ok"
    /\ last.handed
    /\ StepsAt({"GetBuffer"}) # {}
    /\ last.res.buffer = Buf(PlainElem)

----------------------------------------------------------------------------
(* Claims about the direction of the cipher *)

\* the steps that install the key or send octets through the transforms
KeyAndIOSteps == {"AddKey", "Write", "Flush", "Read", "Move", "StateFinal"}

\* C28: in every operation the direction of the cipher it makes is set
\* exactly once, to the direction of the Session (encrypt for the three
\* encrypt operations, decrypt for decrypt), after the cipher is added to the
\* chain, before the key is installed and before the first octets are
\* written, read or flushed.
C28_DirectionSetOnce ==
    IsOp => /\ Cardinality(StepsAt({"SetEncrypt"})) = Cardinality(Ciphers)
            /\ Cardinality(Ciphers) <= 1
            /\ \A i \in Ciphers :
                  /\ last.tr[i].nset = 1
                  /\ last.tr[i].encrypt = (IF last.op \in EncryptOps THEN 1 ELSE 0)
            /\ \A j \in StepsAt({"SetEncrypt"}) :
                  \E k \in StepsAt({"Add"}) : k < j /\ last.log[k] = <<"Add", "cipher">>
            /\ \A k \in StepsAt(KeyAndIOSteps) : \E j \in StepsAt({"SetEncrypt"}) : j < k

C28_Witness ==
    /\ IsOp
    /\ last.op = "Decrypt"
    /\ last.status = "ok"
    /\ StepsAt({"SetEncrypt"}) # {}
    /\ StepsAt({"AddKey"}) # {}
    /\ StepsAt({"Write"}) # {}
    /\ \A i \in Ciphers : last.tr[i].nset = 1 /\ last.tr[i].encrypt = 0

----------------------------------------------------------------------------
(* Claims about the order of creation and destruction *)

\* the Result is created before the Session, and the Session before any
\* transform is created or added to its chain
CreatedInOrder ==
    /\ \A j \in StepsAt({"StateCreate"}) : \E i \in StepsAt({"ResultCreate"}) : i < j
    /\ \A k \in StepsAt({"Create", "Add", "AddFirst"}) :
          \E j \in StepsAt({"StateCreate"}) : j < k

\* the destructions of the transforms of the chain are part of the
\* destruction of the Session or of the external pipeline, or are those of a
\* transform the chain refused
ChainGoesWithSession ==
    \A k \in StepsAt({"TransformDestroy"}) :
        \/ k + 1 \in StepsAt({"StateDestroy"})
        \/ last.op = "Decrypt" /\ StepsAt({"TStateCreate"}) # {}
        \/ k - 1 \in StepsAt({"Create"})

\* the original statement of C29: the Result is created before the Session
\* and the Session before its chain, and on every exit the Result, when it is
\* not handed over, is destroyed only after the Session has been destroyed
C29_Original ==
    IsOp => /\ CreatedInOrder
            /\ \A r \in StepsAt({"ResultDestroy"}) :
                  StepsAt({"StateCreate"}) # {}
                     => \E s \in StepsAt({"StateDestroy"}) : s < r

\* an operation that succeeded and kept its Result, or failed in a write, a
\* flush or a read on the chain
ResultGoesFirst ==
    /\ IsOp
    /\ \/ last.status = "ok" /\ ~last.handed
       \/ last.status = "fail" /\ last.in.fault \in {"Write", "Flush", "Read"}

\* C29: the Result is created before the Session and the Session before its
\* chain; the chain is destroyed with the Session; on the successful exit
\* with no slot for the Result, and on the exits after a failing write,
\* flush or read, the Result is destroyed first and the Session after it.
C29_CreationAndDestruction ==
    IsOp => /\ CreatedInOrder
            /\ ChainGoesWithSession
            /\ ResultGoesFirst
                  => /\ Cardinality(StepsAt({"ResultDestroy"})) = 1
                     /\ Cardinality(StepsAt({"StateDestroy"})) = 1
                     /\ \A r \in StepsAt({"ResultDestroy"}), s \in StepsAt({"StateDestroy"}) :
                           r < s

C29_Witness ==
    /\ ResultGoesFirst
    /\ last.op = "EncryptMemory"
    /\ last.status = "ok"
    /\ StepsAt({"ResultDestroy"}) # {}
    /\ StepsAt({"TransformDestroy"}) # {}

----------------------------------------------------------------------------
(* Claims about the place of CipherData *)

\* the names of the element children that follow the optional
\* EncryptionMethod and the optional KeyInfo
AfterOptional(names) ==
    LET a == IF names # <<>> /\ names[1] = "EncryptionMethod" THEN Tail(names) ELSE names
    IN IF a # <<>> /\ a[1] = "KeyInfo" THEN Tail(a) ELSE a

\* the element that follows them is CipherData
CipherDataNext(enc) ==
    /\ AfterOptional(ElemNames(enc)) # <<>>
    /\ Head(AfterOptional(ElemNames(enc))) = "CipherData"

CipherDataMisplaced ==
    /\ IsOp
    /\ ~CipherDataNext(last.encPre)

\* C30: when the element child of EncryptedData that follows the optional
\* EncryptionMethod and the optional KeyInfo is not CipherData, the
\* construction of the Session fails, with INVALID_NODE once the key is
\* installed and the KeyInfo written; every write, flush, read and reference
\* read works on a Session whose CipherData node was found, and decrypt never
\* reports NODE_NOT_FOUND.
C30_CipherDataRequired ==
    IsOp => /\ CipherDataMisplaced
                => /\ last.status # "ok"
                   /\ StepsAt({"CipherData", "Write", "Flush", "Read", "TStateCreate"}) = {}
                   /\ (StepsAt({"AddKey"}) # {} /\ last.in.fault # "KeyInfoWrite")
                         => (last.status = "fail" /\ last.errs[1] = "INVALID_NODE")
            /\ \A k \in StepsAt({"Write", "Flush", "Read", "TStateCreate"}) :
                  \E j \in StepsAt({"CipherData"}) : j < k
            /\ \A i \in 1..Len(last.errs) : last.errs[i] # "NODE_NOT_FOUND"

C30_Witness ==
    /\ CipherDataMisplaced
    /\ last.op = "Decrypt"
    /\ last.in.fault = "none"
    /\ StepsAt({"AddKey"}) # {}
    /\ last.errs[1] = "INVALID_NODE"
    /\ xmlSecFindChild(last.encPre, "CipherData", xmlSecEncNs) # 0

----------------------------------------------------------------------------
(* Claims about a CipherData the write does not accept *)

\* an encrypt operation on a template whose CipherData is in place and has a
\* first element child that is neither CipherValue nor CipherReference, or
\* an element after the first
EncryptOfBadCipherData ==
    /\ IsOp
    /\ last.op \in EncryptOps
    /\ CipherDataNext(last.encPre)
    /\ CipherElems(last.encPre) # <<>>
    /\ ~OneCipherChild(last.encPre)

\* C31: an encrypt operation on a template whose CipherData has an element
\* after its first CipherValue or CipherReference, or a first element child
\* that is neither, does not succeed, and when it gets as far as the write
\* into CipherData the write fails and the first error is INVALID_NODE.
C31_WriteRejectsUnexpected ==
    EncryptOfBadCipherData
       => /\ last.status # "ok"
          /\ ~last.handed
          /\ StepsAt({"CipherDataWrite"}) # {}
                => (last.errs[1] = "INVALID_NODE" /\ Len(last.errs) >= 2)

C31_Witness ==
    /\ EncryptOfBadCipherData
    /\ last.op = "EncryptUri"
    /\ last.in.fault = "none"
    /\ StepsAt({"CipherDataWrite"}) # {}
    /\ Len(CipherElems(last.encPre)) = 2
    /\ last.errs[1] = "INVALID_NODE"

\* an encrypt operation whose write into CipherData failed on an element it
\* does not accept
WriteFailed ==
    /\ EncryptOfBadCipherData
    /\ StepsAt({"CipherDataWrite"}) # {}

\* C32: the write into CipherData is not atomic: when the first element
\* child is CipherValue and another element follows, the failed encrypt
\* leaves the text of the CipherValue overwritten with "\n" + the new
\* ciphertext + "\n" and nothing else of CipherData changed; when the first
\* element child is unknown or is CipherReference the failed write leaves
\* CipherData as it was.
C32_WriteNotAtomic ==
    WriteFailed
       => /\ last.status # "ok"
          /\ FirstCipherIs("CipherValue")
                => /\ CipherDataOf(tmpl[1])
                        = [CipherDataOf(last.encPre) EXCEPT
                              !.kids[FirstCipherElem] = SetCipherText(@, CipherTextDone)]
          /\ ~FirstCipherIs("CipherValue")
                => CipherDataOf(tmpl[1]) = CipherDataOf(last.encPre)

C32_Witness ==
    /\ WriteFailed
    /\ last.op = "EncryptMemory"
    /\ last.status = "fail"
    /\ FirstCipherIs("CipherValue")
    /\ CipherValueText(tmpl[1]) # CipherValueText(last.encPre)
    /\ Len(CipherDataOf(tmpl[1]).kids) = 2

----------------------------------------------------------------------------
(* Claims about the KeyInfo of a failed encrypt *)

\* the children of the KeyName elements of the KeyInfo child of the node
KeyNamesOf(enc) ==
    LET ki == enc.kids[xmlSecFindChild(enc, "KeyInfo", xmlSecDSigNs)]
        N == SelectSeq(ki.kids, LAMBDA x : IsElem(x) /\ x.name = "KeyName")
    IN [i \in 1..Len(N) |-> N[i].kids]

\* the name of the key of the operation: the caller's key or the one the key
\* manager finds
KeyNameUsed == IF last.in.key # NoKey THEN last.in.key.name ELSE KM1.name

EncryptFailed ==
    /\ IsOp
    /\ last.op \in EncryptOps
    /\ last.status # "ok"

\* C33: in an encrypt operation the key is installed on the cipher, then the
\* KeyInfo is written, then CipherData is located; an encrypt that fails
\* after the KeyInfo was written (CipherData missing or misplaced, a later
\* transform creation or chain step) leaves the KeyName of the KeyInfo filled
\* in with the name of the key, and an encrypt that fails before the key is
\* installed leaves the whole tree as it was.
C33_KeyInfoWrittenEarly ==
    (IsOp /\ last.op \in EncryptOps)
       => /\ \A w \in StepsAt({"KeyInfoWrite"}) :
                /\ \E a \in StepsAt({"AddKey"}) : a < w
                /\ \A c \in StepsAt({"CipherData", "Write", "Flush", "Read"}) : w < c
          /\ \A c \in StepsAt({"CipherData"}) : \E a \in StepsAt({"AddKey"}) : a < c
          /\ (StepsAt({"AddKey"}) # {} /\ last.in.fault # "KeyInfoWrite"
                /\ xmlSecFindChild(last.encPre, "KeyInfo", xmlSecDSigNs) # 0
                /\ KeyInfoInPlace(last.encPre))
                => StepsAt({"KeyInfoWrite"}) # {}
          /\ (EncryptFailed /\ StepsAt({"KeyInfoWrite"}) # {})
                => \A i \in 1..Len(KeyNamesOf(tmpl[1])) :
                      KeyNamesOf(tmpl[1])[i] = <<Chr(KeyNameUsed)>>
          /\ (EncryptFailed /\ StepsAt({"AddKey"}) = {})
                => (tmpl = last.pre.tmpl /\ doc = last.pre.doc)

C33_Witness ==
    /\ EncryptFailed
    /\ StepsAt({"KeyInfoWrite"}) # {}
    /\ StepsAt({"CipherData"}) = {}
    /\ last.errs[1] = "INVALID_NODE"
    /\ KeyNamesOf(last.encPre) = <<<<>>>>
    /\ KeyNamesOf(tmpl[1]) = <<<<Chr("k1")>>>>

----------------------------------------------------------------------------
(* Claims about the operations that do not splice *)

\* the octets encrypt_xml_node dumped, when it got as far as the dump
Dumped == {last.log[j][2] : j \in StepsAt({"Dump"})}

\* encrypt_xml_node on a template with no Type attribute
NodeOpNoType ==
    /\ IsOp
    /\ last.op = "EncryptXmlNode"
    /\ TypeOf(last.encPre) = NULL

\* the operation made no splice: the document is as it was, the
\* EncryptedData node is where it was, and the Result does not say replaced
NoSplice ==
    /\ doc = last.pre.doc
    /\ last.encLoc = last.in.loc
    /\ Len(tmpl) = Len(last.pre.tmpl)
    /\ StepsAt({"Replace"}) = {}
    /\ last.res.replaced = 0

\* C34: encrypt_xml_node on a template with no Type attribute dumps the
\* source node whole, the octets it dumps for Type #Element, and makes no
\* splice: the source node stays in its document, the EncryptedData node
\* stays where it was and the Result's replaced is false; encrypt_memory and
\* encrypt_uri make no splice and leave replaced false whatever the Type.
C34_NoTypeNoSplice ==
    /\ NodeOpNoType
          => /\ NoSplice
             /\ \A i \in 1..Len(last.errs) : last.errs[i] # "INVALID_TYPE"
             /\ Dumped \subseteq {xmlNodeDump(GetAt(last.pre.doc, last.in.src))}
    /\ (IsOp /\ last.op = "EncryptXmlNode" /\ TypeOf(last.encPre) = xmlSecEncTypeElement)
          => Dumped \subseteq {xmlNodeDump(GetAt(last.pre.doc, last.in.src))}
    /\ (IsOp /\ last.op \in {"EncryptMemory", "EncryptUri"}) => NoSplice

C34_Witness ==
    /\ NodeOpNoType
    /\ ~last.in.ignoreType
    /\ last.status = "ok"
    /\ last.handed
    /\ Dumped = {xmlNodeDump(SrcElem)}
    /\ GetAt(doc, last.in.src) = SrcElem
    /\ last.res.buffer.has


----------------------------------------------------------------------------
(* Claims about the splice of decrypt *)

\* a decrypt that heeds the Type, of a node whose Type is #Element or #Content
DecryptOfSpliceType ==
    /\ IsOp
    /\ last.op = "Decrypt"
    /\ ~last.in.ignoreType
    /\ TypeOf(last.encPre) \in {xmlSecEncTypeElement, xmlSecEncTypeContent}

\* the same call on the same documents but for the Type of the node, which
\* is the other of #Element and #Content
TwinOfLast ==
    LET t == IF TypeOf(last.encPre) = xmlSecEncTypeElement
             THEN xmlSecEncTypeContent ELSE xmlSecEncTypeElement
        e == xmlSetProp(last.encPre, "Type", t)
    IN xmlSecDecrypt(Machine(last.in, e,
                             IF last.in.loc.d = "tmpl" THEN <<e>> ELSE last.pre.tmpl,
                             IF last.in.loc.d = "doc"
                             THEN ReplaceAt(last.pre.doc, last.in.loc.path, <<e>>)
                             ELSE last.pre.doc,
                             last.pre.ids, last.pre.kmctx))

\* the tree the node was in, with the items in the place of the node
SplicedIn(items) ==
    /\ doc = (IF last.in.loc.d = "doc"
              THEN ReplaceAt(last.pre.doc, last.in.loc.path, items)
              ELSE last.pre.doc)
    /\ tmpl = (IF last.in.loc.d = "tmpl"
               THEN ReplaceAt(last.pre.tmpl, last.in.loc.path, items)
               ELSE last.pre.tmpl)

\* C35: a decrypt that heeds the Type does for #Content what it does for
\* #Element: when it succeeds the parse of the plaintext buffer is in the
\* place of the EncryptedData node, its nodes being siblings under the parent
\* of that node, and the Result says replaced; the same call on the node with
\* the other of the two Types ends the same way with the same trees, the same
\* buffer and the same flag.
C35_ContentSplicedAsElement ==
    DecryptOfSpliceType
       => /\ last.status = "ok"
                => /\ StepsAt({"Replace"}) # {}
                   /\ last.encLoc.d = "gone"
                   /\ last.handed
                         => /\ last.res.replaced = 1
                            /\ xmlParse(last.res.buffer.data).ok
                            /\ SplicedIn(xmlParse(last.res.buffer.data).items)
          /\ last.status # "ok" => StepsAt({"Replace"}) = {}
          /\ Let(TwinOfLast, LAMBDA w :
                /\ StatusOf(w) = last.status
                /\ last.status = "ok" => (Committed(w).doc = doc /\ Committed(w).tmpl = tmpl)
                /\ w.handed = last.handed
                /\ w.res.buffer = last.res.buffer
                /\ w.res.replaced = last.res.replaced)

C35_Witness ==
    /\ DecryptOfSpliceType
    /\ TypeOf(last.encPre) = xmlSecEncTypeContent
    /\ last.status = "ok"
    /\ last.handed
    /\ last.res.buffer = Buf(PlainPair)
    /\ last.res.replaced = 1
    /\ tmpl = <<Chr("x"), Elem("b", NULL, NoAttrs, <<>>)>>


----------------------------------------------------------------------------
(* Claims about the elements after CipherData *)

\* the names of the element children of EncryptedData that come after the
\* CipherData and after the EncryptionProperties that may follow it
TrailingNames(enc) ==
    LET a == Tail(AfterOptional(ElemNames(enc)))
    IN IF a # <<>> /\ a[1] = "EncryptionProperties" THEN Tail(a) ELSE a

\* the operation worked on a node with such elements
HasTrailing ==
    /\ IsOp
    /\ CipherDataNext(last.encPre)
    /\ TrailingNames(last.encPre) # <<>>
    /\ \A i \in 1..Len(TrailingNames(last.encPre)) : TrailingNames(last.encPre)[i] = "Unknown"

\* the node without them
Stripped(enc) ==
    [enc EXCEPT !.kids = SelectSeq(@, LAMBDA x : ~(IsElem(x) /\ x.name = "Unknown"))]

\* the same call on the same node without them
StrippedRun ==
    LET e == Stripped(last.encPre)
        w == Machine(last.in, e,
                     IF last.in.loc.d = "tmpl" THEN <<e>> ELSE last.pre.tmpl,
                     IF last.in.loc.d = "doc"
                     THEN ReplaceAt(last.pre.doc, last.in.loc.path, <<e>>)
                     ELSE last.pre.doc,
                     last.pre.ids, last.pre.kmctx)
    IN CASE last.op = "EncryptMemory" -> xmlSecEncryptMemory(w)
         [] last.op = "EncryptUri" -> xmlSecEncryptUri(w)
         [] last.op = "EncryptXmlNode" -> xmlSecEncryptXmlNode(w)
         [] OTHER -> xmlSecDecrypt(w)

\* the claim as it is written: the elements are accepted by a decrypt and
\* make an encrypt fail
C36_Original ==
    (HasTrailing /\ last.op \in EncryptOps)
       => last.status # "ok"

\* C36: unknown element children of EncryptedData that follow CipherData, or
\* the EncryptionProperties after it, are accepted by the driver in both
\* directions: a decrypt and an encrypt of such a node report no
\* INVALID_NODE, end as the same call ends on the node without these
\* elements (status, errors, steps, Result) and leave the elements where
\* they were.
C36_TrailingAccepted ==
    HasTrailing
       => /\ \A i \in 1..Len(last.errs) : last.errs[i] # "INVALID_NODE"
          /\ Let(StrippedRun, LAMBDA w :
                /\ StatusOf(w) = last.status
                /\ w.errs = last.errs
                /\ w.log = last.log
                /\ w.handed = last.handed
                /\ w.res = last.res
                /\ last.encLoc.d # "gone"
                      => /\ w.enc = Stripped(last.enc)
                         /\ TrailingNames(last.enc) = TrailingNames(last.encPre))

C36_Witness ==
    /\ HasTrailing
    /\ last.op \in EncryptOps
    /\ "EncryptionProperties" \in {ElemNames(last.encPre)[i] : i \in 1..Len(ElemNames(last.encPre))}
    /\ last.status = "ok"
    /\ last.handed
    /\ last.res.buffer = Buf(CipherTextDone)


----------------------------------------------------------------------------
(* Claims about what a failed builder call leaves behind *)

FailedAddEncMethod == last.op = "AddEncMethod" /\ ~last.ok

FailedAddTransform == last.op = "AddTransform" /\ ~last.ok

\* the node has a Transforms element below it
HasTransforms(encNode) == \E x \in ElementsOf(encNode) : x.name = "Transforms"

\* C37: a failed add-EncryptionMethod leaves the EncryptedData node as it was
\* before the call, whether an EncryptionMethod was there, the node could
\* not be made, or the algorithm could not be written onto the new node; a
\* failed add-Transform leaves one more Transform under CipherReference when
\* the transform could not be written onto the new node, and leaves the
\* Transforms it made when the Transform node could not be made; it leaves the
\* node as it was in its other failures.
C37_FailedBuilderLeftovers ==
    /\ FailedAddEncMethod => tmpl[1] = last.pre
    /\ FailedAddTransform
          => IF last.err = "XMLSEC_FAILED" /\ last.fault = "NodeWrite"
             THEN /\ TransformsOf(tmpl[1]) = TransformsOf(last.pre) + 1
                  /\ HasTransforms(tmpl[1])
                  /\ tmpl[1] # last.pre
             ELSE IF last.err = "XMLSEC_FAILED" /\ last.fault = "AddChild2"
             THEN /\ TransformsOf(tmpl[1]) = TransformsOf(last.pre)
                  /\ HasTransforms(tmpl[1])
                  /\ (tmpl[1] = last.pre) <=> HasTransforms(last.pre)
             ELSE tmpl[1] = last.pre

C37_Witness ==
    /\ FailedAddEncMethod
    /\ last.fault = "NodeWrite"
    /\ last.err = "XMLSEC_FAILED"
    /\ xmlSecFindChild(last.pre, "EncryptionMethod", xmlSecEncNs) = 0
    /\ Len(last.pre.kids) > 1
    /\ tmpl[1] = last.pre

====
